---- MODULE Spec2Model ----
(***************************************************************************)
(* Cryostat instrument drivers: the Oxford Instruments ILM 200/210 helium  *)
(* level meter adapters and the Mercury iPS-M magnet power supply driver,  *)
(* mock driver and GUI, the helium level monitor window, the ITC 503       *)
(* temperature controller window and the Keithley 6221 delta mode window.  *)
(*                                                                         *)
(* Text is modelled character by character: a Python str is a sequence of  *)
(* one-character strings, so that replace, strip, split, startswith,       *)
(* float() and int() are computed the way the code computes them.  A       *)
(* Python float is an exact decimal [m, e] = m / 10^e (e fractional        *)
(* digits, no trailing zero); the characters of the model's alphabet never *)
(* spell an exponent, "inf", "nan" or a digit-group underscore.            *)
(* A Python value is a tagged record: None, str, float, bool, an Enum      *)
(* member, or an exception that escaped the call.                          *)
(***************************************************************************)
EXTENDS Integers, Sequences, FiniteSets, TLC

VARIABLES
    drv,    \* the MercuryiPSDriver / MockMercuryiPSDriver instance in use
    call,   \* the driver-level call that ran last: its name, input and return value
    hist,   \* what the caller did before: the last accepted settings and commands
    gui     \* the window in use (MercuryiPSGUI, HeliumLevelMonitorApp,
            \* ITC503ControlApp or DeltaGUI): flags, buttons, timer and worker threads

vars == <<drv, call, hist, gui>>

----------------------------------------------------------------------------
(* Bounds of the model *)

\* the device's current readings run from 1.00 A down in this many steps of 0.05 A
ReadingSteps == 4
\* how many leading characters of a status string the truncated responses keep, at most
MaxTrunc == 13
\* transport handles a driver may leave open before the model stops it
MaxHandles == 3

----------------------------------------------------------------------------
(* Python values *)

None == [t |-> "None"]
PyStr(s) == [t |-> "str", s |-> s]
PyFloat(m, e) == [t |-> "float", m |-> m, e |-> e]
PyBool(b) == [t |-> "bool", b |-> b]
Raised(exc) == [t |-> "raise", exc |-> exc]

IsRaised(v) == v.t = "raise"
\* Python truthiness of an Optional[str]: None and "" are falsy
Truthy(v) == v.t = "str" /\ v.s # <<>>

Abs(n) == IF n < 0 THEN -n ELSE n

RECURSIVE Pow10(_)
Pow10(k) == IF k = 0 THEN 1 ELSE 10 * Pow10(k - 1)

\* the float m / 10^e without trailing fractional zeros
RECURSIVE Norm(_, _)
Norm(m, e) == IF e > 0 /\ m % 10 = 0 THEN Norm(m \div 10, e - 1) ELSE PyFloat(m, e)

\* a - b of two floats, as a float
FloatSub(a, b) ==
    LET e == IF a.e > b.e THEN a.e ELSE b.e
    IN  Norm(a.m * Pow10(e - a.e) - b.m * Pow10(e - b.e), e)

FloatAbs(a) == PyFloat(Abs(a.m), a.e)

\* a > b, a < b on floats
FloatGt(a, b) == FloatSub(a, b).m > 0
FloatLt(a, b) == FloatSub(a, b).m < 0

----------------------------------------------------------------------------
(* Python str operations *)

Whitespace == {" ", "\n", "\r", "\t"}
Digits == <<"0", "1", "2", "3", "4", "5", "6", "7", "8", "9">>
DigitSet == {Digits[i] : i \in 1..10}
HexDigits == <<"0", "1", "2", "3", "4", "5", "6", "7", "8", "9",
               "a", "b", "c", "d", "e", "f", "A", "B", "C", "D", "E", "F">>
HexSet == {HexDigits[i] : i \in 1..22}

DigitVal(c) == (CHOOSE i \in 1..10 : Digits[i] = c) - 1
HexVal(c) ==
    LET i == CHOOSE j \in 1..22 : HexDigits[j] = c
    IN  IF i > 16 THEN i - 7 ELSE i - 1

\* s[i:i+len(p)] == p
OccursAt(s, p, i) == i + Len(p) - 1 <= Len(s) /\ SubSeq(s, i, i + Len(p) - 1) = p

\* s.startswith(p)
StartsWith(s, p) == OccursAt(s, p, 1)

\* p in s, s.find(p) >= 0
Contains(s, p) == \E i \in 1..(Len(s) + 1) : OccursAt(s, p, i)

\* s.replace(old, ''): every non-overlapping occurrence, left to right
RECURSIVE ReplaceFrom(_, _, _)
ReplaceFrom(s, old, i) ==
    IF i > Len(s) THEN <<>>
    ELSE IF OccursAt(s, old, i) THEN ReplaceFrom(s, old, i + Len(old))
    ELSE <<s[i]>> \o ReplaceFrom(s, old, i + 1)

Replace(s, old) == IF old = <<>> THEN s ELSE ReplaceFrom(s, old, 1)

RECURSIVE LStrip(_, _)
LStrip(s, cs) == IF s # <<>> /\ s[1] \in cs THEN LStrip(Tail(s), cs) ELSE s

RECURSIVE RStrip(_, _)
RStrip(s, cs) ==
    IF s # <<>> /\ s[Len(s)] \in cs THEN RStrip(SubSeq(s, 1, Len(s) - 1), cs) ELSE s

\* s.strip(chars); s.strip() with cs = Whitespace
Strip(s, cs) == RStrip(LStrip(s, cs), cs)

\* s.split(sep)[-1]: what follows the last sep, the whole of s when it has none
LastField(s, sep) ==
    LET at == {i \in 1..Len(s) : s[i] = sep}
    IN  IF at = {} THEN s
        ELSE SubSeq(s, (CHOOSE i \in at : \A j \in at : j <= i) + 1, Len(s))

\* s[a:b] with 0-based Python indices, clipped to the string
Slice(s, a, b) == SubSeq(s, a + 1, IF b < Len(s) THEN b ELSE Len(s))

AllIn(s, cs) == \A i \in 1..Len(s) : s[i] \in cs

RECURSIVE DecVal(_)
DecVal(ds) ==
    IF ds = <<>> THEN 0
    ELSE DecVal(SubSeq(ds, 1, Len(ds) - 1)) * 10 + DigitVal(ds[Len(ds)])

RECURSIVE HexNum(_)
HexNum(ds) ==
    IF ds = <<>> THEN 0
    ELSE HexNum(SubSeq(ds, 1, Len(ds) - 1)) * 16 + HexVal(ds[Len(ds)])

\* float(s): surrounding whitespace, a sign, digits with at most one point and at
\* least one digit; anything else raises ValueError
float(s) ==
    LET t == Strip(s, Whitespace)
        signed == t # <<>> /\ t[1] \in {"+", "-"}
        body == IF signed THEN Tail(t) ELSE t
        dots == {i \in 1..Len(body) : body[i] = "."}
        d == IF dots = {} THEN Len(body) + 1 ELSE CHOOSE i \in dots : TRUE
        ip == SubSeq(body, 1, d - 1)
        fp == SubSeq(body, d + 1, Len(body))
        ok == /\ Cardinality(dots) <= 1
              /\ AllIn(ip, DigitSet) /\ AllIn(fp, DigitSet)
              /\ Len(ip) + Len(fp) >= 1
        mag == DecVal(ip \o fp)
    IN  IF ~ok THEN Raised("ValueError")
        ELSE Norm(IF signed /\ t[1] = "-" THEN -mag ELSE mag, Len(fp))

\* int(s): surrounding whitespace, a sign, decimal digits
int(s) ==
    LET t == Strip(s, Whitespace)
        signed == t # <<>> /\ t[1] \in {"+", "-"}
        body == IF signed THEN Tail(t) ELSE t
    IN  IF body = <<>> \/ ~AllIn(body, DigitSet) THEN Raised("ValueError")
        ELSE [t |-> "int", n |-> IF signed /\ t[1] = "-" THEN -DecVal(body) ELSE DecVal(body)]

\* int(s, 16): surrounding whitespace, a sign, hexadecimal digits
int16(s) ==
    LET t == Strip(s, Whitespace)
        signed == t # <<>> /\ t[1] \in {"+", "-"}
        body == IF signed THEN Tail(t) ELSE t
    IN  IF body = <<>> \/ ~AllIn(body, HexSet) THEN Raised("ValueError")
        ELSE [t |-> "int", n |-> IF signed /\ t[1] = "-" THEN -HexNum(body) ELSE HexNum(body)]

\* n & mask for a one-bit mask, n of either sign (two's complement)
BitAnd(n, mask) == IF (n \div mask) % 2 = 1 THEN mask ELSE 0

\* str(f), f"{f}" of a float: sign, integer part, point, fractional digits
RECURSIVE NatStr(_)
NatStr(n) ==
    IF n < 10 THEN <<Digits[n + 1]>> ELSE NatStr(n \div 10) \o <<Digits[(n % 10) + 1]>>

RECURSIVE ZeroPad(_, _)
ZeroPad(s, w) == IF Len(s) >= w THEN s ELSE ZeroPad(<<"0">> \o s, w)

FloatStr(f) ==
    LET a == Abs(f.m)
        p == Pow10(f.e)
    IN  (IF f.m < 0 THEN <<"-">> ELSE <<>>)
        \o NatStr(a \div p) \o <<".">>
        \o (IF f.e = 0 THEN <<"0">> ELSE ZeroPad(NatStr(a % p), f.e))

----------------------------------------------------------------------------
(* OxfordInstruments_ILM200 (qcodes) and OI_ILM_210 (pymeasure)             *)
(* A wire is what the serial transport does for one command: whether the   *)
(* write goes through, whether the read goes through, and the bytes the    *)
(* device put in the buffer.                                               *)

Wire(w, r, buf) == [w |-> w, r |-> r, buf |-> buf]

\* OxfordInstruments_ILM200._read: the buffer, "" when reading fails
ILM200_read(wire) == IF wire.r THEN wire.buf ELSE <<>>

\* a bug that forgets the error marker
ILM200_execute_NoMarker(message, wire) ==
    IF ~wire.w THEN None ELSE PyStr(ILM200_read(wire))

\* OxfordInstruments_ILM200._execute
ILM200_execute(message, wire) ==
    IF ~wire.w THEN None
    ELSE LET result == ILM200_read(wire)
         IN  IF Contains(result, <<"?">>) THEN None ELSE PyStr(result)

\* OxfordInstruments_ILM200.local / set_remote_status(0): _execute('C0'), whose
\* result is dropped
ILM200_local(wire) ==
    [sent |-> << <<"C", "0">> >>, ret |-> LET r == ILM200_execute(<<"C", "0">>, wire)
                                         IN  IF IsRaised(r) THEN r ELSE None]

\* OxfordInstruments_ILM200.close after local(): whatever local() raised is logged,
\* then super().close() releases the VISA handle outside any try block
ILM200_release(l, release) ==
    [sent |-> l.sent, released |-> release,
     ret |-> IF release THEN None ELSE Raised("VisaIOError")]

\* OxfordInstruments_ILM200.close
ILM200_close(wire, release) == ILM200_release(ILM200_local(wire), release)

\* OI_ILM_210._execute: the reply as read, None when write or read raises
ILM210_execute(message, wire) ==
    IF ~wire.w \/ ~wire.r THEN None ELSE PyStr(wire.buf)

\* a bug that leaves the conversion outside the try block
ParseLevel_NoExcept(result) ==
    IF ~Truthy(result) THEN None
    ELSE LET f == float(Replace(result.s, <<"R">>))
         IN  IF IsRaised(f) THEN f ELSE Norm(f.m, f.e + 1)

\* float(result.replace("R", "")) / 10 under try/except ValueError
ParseLevel(result) ==
    IF ~Truthy(result) THEN None
    ELSE LET f == float(Replace(result.s, <<"R">>))
         IN  IF IsRaised(f) THEN (IF f.exc = "ValueError" THEN None ELSE f)
             ELSE Norm(f.m, f.e + 1)

usage == [n \in {0, 1, 2, 3, 9} |->
            CASE n = 0 -> "Channel not in use"
              [] n = 1 -> "Channel used for Nitrogen level"
              [] n = 2 -> "Channel used for Helium Level (Normal pulsed operation)"
              [] n = 3 -> "Channel used for Helium Level (Continuous measurement)"
              [] n = 9 -> "Error on channel (Usually means probe unplugged)"]

\* usage.get(int(result[1]), "Unknown") under try/except (ValueError, IndexError)
ParseStatus(result) ==
    IF ~(Truthy(result) /\ Len(result.s) > 1) THEN [t |-> "label", v |-> "Unknown"]
    ELSE LET n == int(<<result.s[2]>>)
         IN  IF IsRaised(n)
             THEN (IF n.exc \in {"ValueError", "IndexError"}
                   THEN [t |-> "label", v |-> "Unknown"] ELSE n)
             ELSE [t |-> "label",
                   v |-> IF n.n \in DOMAIN usage THEN usage[n.n] ELSE "Unknown"]

\* the decoding of _do_get_rate and get_rate: result[5:7] as a hex byte, bit 0x02
\* FAST, else bit 0x04 SLOW, under try/except (ValueError, IndexError)
ParseRate(result) ==
    IF ~(Truthy(result) /\ Len(result.s) >= 10) THEN [t |-> "label", v |-> "Unknown"]
    ELSE LET n == int16(Slice(result.s, 5, 7))
         IN  IF IsRaised(n)
             THEN (IF n.exc \in {"ValueError", "IndexError"}
                   THEN [t |-> "label", v |-> "Unknown"] ELSE n)
             ELSE IF BitAnd(n.n, 2) # 0 THEN [t |-> "label", v |-> "FAST"]
             ELSE IF BitAnd(n.n, 4) # 0 THEN [t |-> "label", v |-> "SLOW"]
             ELSE [t |-> "label", v |-> "UNKNOWN"]

ILM200_do_get_level(wire) == ParseLevel(ILM200_execute(<<"R", "1">>, wire))
ILM200_do_get_status(wire) == ParseStatus(ILM200_execute(<<"X">>, wire))
ILM200_do_get_rate(wire) == ParseRate(ILM200_execute(<<"X">>, wire))
ILM210_get_rate(wire) == ParseRate(ILM210_execute(<<"X">>, wire))

----------------------------------------------------------------------------
(* MercuryiPSDriver and MockMercuryiPSDriver                                *)

STAT_ == <<"S","T","A","T",":">>
READ_ == <<"R","E","A","D",":">>
IDN_CMD == <<"*","I","D","N","?">>
IDN_MARK == <<"O","X","F","O","R","D"," ","I","N","S","T","R","U","M","E","N","T","S",":","M","E","R","C","U","R","Y">>
MOCK_IDN == <<"S","T","A","T",":","O","X","F","O","R","D"," ","I","N","S","T","R","U","M","E","N","T","S",":","M","E","R","C","U","R","Y"," ","i","P","S",":","1","2","3","4","5",":","1",".","0">>
MOCK_CAT == <<"S","T","A","T",":","D","E","V",":","M","B","0",":","T","E","M","P",":","D","E","V",":","G","R","P","Z",":","P","S","U">>
MOCK_OK == <<"S","T","A","T",":","O","K">>
NOUN_CURR == <<"D","E","V",":","G","R","P","Z",":","P","S","U",":","S","I","G",":","C","U","R","R">>
NOUN_RCST == <<"D","E","V",":","G","R","P","Z",":","P","S","U",":","S","I","G",":","R","C","S","T">>
NOUN_CSET == <<"D","E","V",":","G","R","P","Z",":","P","S","U",":","S","I","G",":","C","S","E","T">>
NOUN_PCUR == <<"D","E","V",":","G","R","P","Z",":","P","S","U",":","S","I","G",":","P","C","U","R">>
NOUN_VOLT == <<"D","E","V",":","G","R","P","Z",":","P","S","U",":","S","I","G",":","V","O","L","T">>
NOUN_SWHT == <<"D","E","V",":","G","R","P","Z",":","P","S","U",":","S","I","G",":","S","W","H","T">>
NOUN_ACTN == <<"D","E","V",":","G","R","P","Z",":","P","S","U",":","A","C","T","N">>
CMD_SYS_CAT == <<"R","E","A","D",":","S","Y","S",":","C","A","T","?">>
CMD_SET_CSET == <<"S","E","T",":","D","E","V",":","G","R","P","Z",":","P","S","U",":","S","I","G",":","C","S","E","T",":">>
CMD_SET_RCST == <<"S","E","T",":","D","E","V",":","G","R","P","Z",":","P","S","U",":","S","I","G",":","R","C","S","T",":">>
CMD_SWHN_ON == <<"S","E","T",":","D","E","V",":","G","R","P","Z",":","P","S","U",":","S","I","G",":","S","W","H","N",":","O","N">>
CMD_SWHN_OFF == <<"S","E","T",":","D","E","V",":","G","R","P","Z",":","P","S","U",":","S","I","G",":","S","W","H","N",":","O","F","F">>
CMD_RTOZ == <<"S","E","T",":","D","E","V",":","G","R","P","Z",":","P","S","U",":","A","C","T","N",":","R","T","O","Z">>
CMD_HOLD == <<"S","E","T",":","D","E","V",":","G","R","P","Z",":","P","S","U",":","A","C","T","N",":","H","O","L","D">>
CMD_RTOS == <<"S","E","T",":","D","E","V",":","G","R","P","Z",":","P","S","U",":","A","C","T","N",":","R","T","O","S">>
UNIT_A == <<"A">>
UNIT_A_PER_MIN == <<"A", "/", "m">>
UNIT_V == <<"V">>

ReadCmd(noun) == READ_ \o noun \o <<"?">>

\* class MagnetStatus(Enum): member name -> value
MagnetStatus ==
    [HOLD |-> <<"H","O","L","D">>,
     RAMPING_TO_SET |-> <<"R","T","O","S">>,
     RAMPING_TO_ZERO |-> <<"R","T","O","Z">>,
     CLAMPED |-> <<"C","L","M","P">>,
     UNKNOWN |-> <<"U","N","K","N","O","W","N">>]

Member(name) == [t |-> "MagnetStatus", name |-> name]

\* MagnetStatus(value): the member with that value, ValueError when there is none
MagnetStatusOf(value) ==
    IF \E n \in DOMAIN MagnetStatus : MagnetStatus[n] = value
    THEN Member(CHOOSE n \in DOMAIN MagnetStatus : MagnetStatus[n] = value)
    ELSE Raised("ValueError")

\* MercuryiPSDriver.__init__ / MockMercuryiPSDriver.__init__
\* (mode "ip" is the default; handles counts the transport handles the driver has
\* opened and not released)
NewDriver(kind) ==
    [kind |-> kind, connected |-> FALSE, mode |-> "ip", handles |-> 0,
     mock_current |-> PyFloat(0, 0), mock_current_ramp_rate |-> PyFloat(1, 0),
     mock_current_setpoint |-> PyFloat(0, 0), mock_heater_status |-> <<"O","F","F">>,
     mock_magnet_status |-> "HOLD", mock_persistent_current |-> PyFloat(0, 0),
     mock_voltage |-> PyFloat(0, 0)]

\* MockMercuryiPSDriver._query
MockQuery(d, command) ==
    IF command = IDN_CMD THEN MOCK_IDN
    ELSE IF command = ReadCmd(NOUN_CURR)
    THEN STAT_ \o NOUN_CURR \o <<":">> \o FloatStr(d.mock_current) \o <<":">> \o UNIT_A
    ELSE IF command = ReadCmd(NOUN_RCST)
    THEN STAT_ \o NOUN_RCST \o <<":">> \o FloatStr(d.mock_current_ramp_rate)
             \o <<":">> \o UNIT_A_PER_MIN
    ELSE IF command = ReadCmd(NOUN_CSET)
    THEN STAT_ \o NOUN_CSET \o <<":">> \o FloatStr(d.mock_current_setpoint) \o <<":">> \o UNIT_A
    ELSE IF command = ReadCmd(NOUN_SWHT)
    THEN STAT_ \o NOUN_SWHT \o <<":">> \o d.mock_heater_status
    ELSE IF command = ReadCmd(NOUN_ACTN)
    THEN STAT_ \o NOUN_ACTN \o <<":">> \o MagnetStatus[d.mock_magnet_status]
    ELSE IF command = ReadCmd(NOUN_PCUR)
    THEN STAT_ \o NOUN_PCUR \o <<":">> \o FloatStr(d.mock_persistent_current)
             \o <<":">> \o UNIT_A
    ELSE IF command = ReadCmd(NOUN_VOLT)
    THEN STAT_ \o NOUN_VOLT \o <<":">> \o FloatStr(d.mock_voltage) \o <<":">> \o UNIT_V
    ELSE IF command = CMD_SYS_CAT THEN MOCK_CAT
    ELSE MOCK_OK

\* MercuryiPSDriver._query_ip: the socket is the subject of a with statement, closed
\* on return and on raise
query_ip(command, wire) ==
    [ret |-> IF wire.w /\ wire.r THEN PyStr(Strip(wire.buf, Whitespace)) ELSE Raised("OSError"),
     opened |-> 1, closed |-> 1]

\* MercuryiPSDriver._query_visa: open_resource, query, close; a raise in query skips
\* the close
query_visa(command, wire) ==
    IF wire.w /\ wire.r
    THEN [ret |-> PyStr(Strip(wire.buf, Whitespace)), opened |-> 1, closed |-> 1]
    ELSE [ret |-> Raised("VisaIOError"), opened |-> 1, closed |-> 0]

\* MercuryiPSDriver._query on the transport: the reply and the handles left open
query_transport(d, q) ==
    [d |-> [d EXCEPT !.handles = @ + q.opened - q.closed],
     ret |-> IF IsRaised(q.ret) THEN None ELSE q.ret, opened |-> q.opened]

\* a bug that sends the command whether or not the driver is connected
query_NoConnectedCheck(d, command, wire) ==
    IF d.kind = "mock" THEN [d |-> d, ret |-> PyStr(MockQuery(d, command)), opened |-> 0]
    ELSE query_transport(d, IF d.mode = "ip" THEN query_ip(command, wire)
                            ELSE query_visa(command, wire))

\* MercuryiPSDriver._query with its effect on the driver's handles: None while not
\* connected (except for *IDN?) and when the transport raises, else the stripped reply
query(d, command, wire) ==
    IF d.kind = "mock" THEN [d |-> d, ret |-> PyStr(MockQuery(d, command)), opened |-> 0]
    ELSE IF ~d.connected /\ command # IDN_CMD THEN [d |-> d, ret |-> None, opened |-> 0]
    ELSE query_transport(d, IF d.mode = "ip" THEN query_ip(command, wire)
                            ELSE query_visa(command, wire))

\* the value MercuryiPSDriver._query returns
Query(d, command, wire) == query(d, command, wire).ret

\* whether Query does transport I/O for this command
QueryDoesIO(d, command) == d.kind = "real" /\ (d.connected \/ command = IDN_CMD)

\* MockMercuryiPSDriver._set
MockSet(d, command) ==
    IF Contains(command, <<"C","S","E","T",":">>)
    THEN LET value == float(LastField(command, ":"))
         IN  IF IsRaised(value)
             THEN [d |-> d, ret |-> IF value.exc = "ValueError" THEN PyBool(FALSE) ELSE value, sent |-> <<>>]
             ELSE [d |-> [d EXCEPT !.mock_current_setpoint = value], ret |-> PyBool(TRUE), sent |-> <<>>]
    ELSE IF Contains(command, <<"R","C","S","T",":">>)
    THEN LET value == float(LastField(command, ":"))
         IN  IF IsRaised(value)
             THEN [d |-> d, ret |-> IF value.exc = "ValueError" THEN PyBool(FALSE) ELSE value, sent |-> <<>>]
             ELSE [d |-> [d EXCEPT !.mock_current_ramp_rate = value], ret |-> PyBool(TRUE), sent |-> <<>>]
    ELSE IF Contains(command, <<"S","W","H","N",":","O","N">>)
    THEN [d |-> [d EXCEPT !.mock_heater_status = <<"O","N">>], ret |-> PyBool(TRUE), sent |-> <<>>]
    ELSE IF Contains(command, <<"S","W","H","N",":","O","F","F">>)
    THEN [d |-> [d EXCEPT !.mock_heater_status = <<"O","F","F">>], ret |-> PyBool(TRUE), sent |-> <<>>]
    ELSE IF Contains(command, <<"A","C","T","N",":","R","T","O","Z">>)
    THEN [d |-> [d EXCEPT !.mock_magnet_status = "RAMPING_TO_ZERO"], ret |-> PyBool(TRUE), sent |-> <<>>]
    ELSE IF Contains(command, <<"A","C","T","N",":","H","O","L","D">>)
    THEN [d |-> [d EXCEPT !.mock_magnet_status = "HOLD"], ret |-> PyBool(TRUE), sent |-> <<>>]
    ELSE IF Contains(command, <<"A","C","T","N",":","R","T","O","S">>)
    THEN [d |-> [d EXCEPT !.mock_magnet_status = "RAMPING_TO_SET"], ret |-> PyBool(TRUE), sent |-> <<>>]
    ELSE [d |-> d, ret |-> PyBool(TRUE), sent |-> <<>>]

\* MercuryiPSDriver._set on the reply of _query: any non-empty reply is success
\* (sent lists the commands put on the transport)
set_reply(command, t) == [d |-> t.d, ret |-> PyBool(Truthy(t.ret)), sent |-> <<command>>]

\* MercuryiPSDriver._set: False while not connected, else whether the reply is non-empty
Set(d, command, wire) ==
    IF d.kind = "mock" THEN MockSet(d, command)
    ELSE IF ~d.connected THEN [d |-> d, ret |-> PyBool(FALSE), sent |-> <<>>]
    ELSE set_reply(command, query(d, command, wire))

\* a bug that strips the unit's first character only
extract_value_UnitHead(response, noun, unit) ==
    IF response.t # "str" THEN None
    ELSE LET expected_response == STAT_ \o noun \o <<":">>
         IN  IF StartsWith(response.s, expected_response)
             THEN LET f == float(Replace(Strip(Replace(response.s, expected_response),
                                               {"\n"}), <<unit[1]>>))
                  IN  IF IsRaised(f) THEN None ELSE f
             ELSE None

\* MercuryiPSDriver._extract_value, under try/except (ValueError, AttributeError)
extract_value(response, noun, unit) ==
    IF response.t # "str" THEN None    \* None.startswith: AttributeError, caught
    ELSE LET expected_response == STAT_ \o noun \o <<":">>
         IN  IF StartsWith(response.s, expected_response)
             THEN LET value_str == Replace(Strip(Replace(response.s, expected_response),
                                                 {"\n"}), unit)
                      f == float(value_str)
                  IN  IF IsRaised(f)
                      THEN (IF f.exc \in {"ValueError", "AttributeError"} THEN None ELSE f)
                      ELSE f
             ELSE None

\* read_current, read_current_ramp_rate, read_current_setpoint,
\* read_persistent_current, read_voltage
ReadNumeric(d, noun, unit, wire) ==
    LET response == Query(d, ReadCmd(noun), wire)
    IN  IF Truthy(response) THEN extract_value(response, noun, unit) ELSE None

read_current(d, wire) == ReadNumeric(d, NOUN_CURR, UNIT_A, wire)
read_current_ramp_rate(d, wire) == ReadNumeric(d, NOUN_RCST, UNIT_A_PER_MIN, wire)
read_current_setpoint(d, wire) == ReadNumeric(d, NOUN_CSET, UNIT_A, wire)
read_persistent_current(d, wire) == ReadNumeric(d, NOUN_PCUR, UNIT_A, wire)
read_voltage(d, wire) == ReadNumeric(d, NOUN_VOLT, UNIT_V, wire)

\* MercuryiPSDriver.read_switch_heater_status
read_switch_heater_status(d, wire) ==
    LET response == Query(d, ReadCmd(NOUN_SWHT), wire)
    IN  IF Truthy(response) /\ Contains(response.s, STAT_)
        THEN PyStr(Strip(LastField(response.s, ":"), Whitespace))
        ELSE None

\* a bug that matches the final field without stripping it
read_magnet_status_NoStrip(d, wire) ==
    LET response == Query(d, ReadCmd(NOUN_ACTN), wire)
    IN  IF Truthy(response) /\ Contains(response.s, STAT_)
        THEN LET m == MagnetStatusOf(LastField(response.s, ":"))
             IN  IF IsRaised(m) THEN Member("UNKNOWN") ELSE m
        ELSE Member("UNKNOWN")

\* MercuryiPSDriver.read_magnet_status, under try/except (IndexError, ValueError)
read_magnet_status(d, wire) ==
    LET response == Query(d, ReadCmd(NOUN_ACTN), wire)
    IN  IF Truthy(response) /\ Contains(response.s, STAT_)
        THEN LET m == MagnetStatusOf(Strip(LastField(response.s, ":"), Whitespace))
             IN  IF IsRaised(m)
                 THEN (IF m.exc \in {"IndexError", "ValueError"} THEN Member("UNKNOWN") ELSE m)
                 ELSE m
        ELSE Member("UNKNOWN")

\* a bug that compares the signed value with the limit
set_current_SignedLimit(d, value, wire) ==
    IF FloatGt(value, PyFloat(360, 0))
    THEN [d |-> d, ret |-> PyBool(FALSE), sent |-> <<>>]
    ELSE Set(d, CMD_SET_CSET \o FloatStr(value), wire)

\* MercuryiPSDriver.set_current: |value| > 360 is refused before any I/O
set_current(d, value, wire) ==
    IF FloatGt(FloatAbs(value), PyFloat(360, 0))
    THEN [d |-> d, ret |-> PyBool(FALSE), sent |-> <<>>]
    ELSE Set(d, CMD_SET_CSET \o FloatStr(value), wire)

\* MercuryiPSDriver.set_current_ramp_rate: outside 0..1200 is refused before any I/O
set_current_ramp_rate(d, rate, wire) ==
    IF FloatLt(rate, PyFloat(0, 0)) \/ FloatGt(rate, PyFloat(1200, 0))
    THEN [d |-> d, ret |-> PyBool(FALSE), sent |-> <<>>]
    ELSE Set(d, CMD_SET_RCST \o FloatStr(rate), wire)

switch_heater_on(d, wire) == Set(d, CMD_SWHN_ON, wire)
\* a copy-and-paste bug: the OFF method sends the ON command
switch_heater_off_SendsOn(d, wire) == Set(d, CMD_SWHN_ON, wire)
switch_heater_off(d, wire) == Set(d, CMD_SWHN_OFF, wire)
set_field_zero(d, wire) == Set(d, CMD_RTOZ, wire)
hold_field(d, wire) == Set(d, CMD_HOLD, wire)
ramp_to_setpoint(d, wire) == Set(d, CMD_RTOS, wire)

\* MercuryiPSDriver.connect / MockMercuryiPSDriver.connect
\* MercuryiPSDriver.connect on the reply to *IDN?
connect_reply(t) ==
    IF Truthy(t.ret) /\ Contains(t.ret.s, IDN_MARK)
    THEN [d |-> [t.d EXCEPT !.connected = TRUE], ret |-> PyBool(TRUE), sent |-> <<IDN_CMD>>]
    ELSE [d |-> t.d, ret |-> PyBool(FALSE), sent |-> <<IDN_CMD>>]

connect(d, wire) ==
    IF d.kind = "mock"
    THEN [d |-> [d EXCEPT !.connected = TRUE], ret |-> PyBool(TRUE), sent |-> <<>>]
    ELSE connect_reply(query(d, IDN_CMD, wire))

\* MercuryiPSDriver.is_connected
is_connected(d) == d.connected

\* MercuryiPSDriver.disconnect
disconnect(d) == [d EXCEPT !.connected = FALSE]

----------------------------------------------------------------------------
(* What the instruments can put on the wire *)

Min(a, b) == IF a < b THEN a ELSE b

\* an ILM status reply XabcSuuvvwwRzz with channel digit a and channel-1 byte uu
StatusString(a, uu) ==
    <<"X", a, "0", "0", "S">> \o uu \o <<"0", "0", "0", "0", "R", "0", "0">>

StatusChars == {"0", "2", "9", "Z"}
SlotChars == {"0", "2", "4", "6", "b", "F", " ", "+", "-", "Z", "?"}

ILMStatusBufs ==
    {StatusString(a, <<u1, u2>>) : a \in StatusChars, u1 \in SlotChars, u2 \in SlotChars}

ILMTruncatedBufs ==
    {SubSeq(StatusString("2", uu), 1, Min(n, 14)) :
        n \in 0..MaxTrunc, uu \in {<<"0", "2">>, <<"0", "4">>}}

ILMLevelBufs ==
    { <<"R", "1", "2", "3">>, <<"R", "1", "0", "0", "0">>, <<"1", "2", "3", "R">>,
      <<"R">>, <<"?">>, <<"?", "R", "1">>, <<"R", "1", "2", "\r">>, <<"R", "-", "5">>,
      <<"R", "1", ".", "5">>, <<"R", "Z">>, <<" ", "1", "2", " ">>,
      <<"R", "1", ".", "2", ".", "3">>, <<"+">>, <<".">> }

ILMBufs == ILMStatusBufs \cup ILMTruncatedBufs \cup ILMLevelBufs

\* the transport works, or the write fails, or the read fails
ILMWires ==
    {Wire(TRUE, TRUE, b) : b \in ILMBufs}
    \cup {Wire(FALSE, TRUE, <<>>), Wire(TRUE, FALSE, StatusString("2", <<"0", "2">>)),
          Wire(TRUE, FALSE, <<"R", "1", "2", "3">>)}

ILMCommands == {<<"R", "1">>, <<"X">>}

\* the numeric readings of the power supply
Readings ==
    {Norm(sgn * 5 * k, 2) : k \in (20 - ReadingSteps)..20, sgn \in {1, -1}}
    \cup {PyFloat(0, 0), PyFloat(1234, 3), PyFloat(3605, 1)}

Nouns == {NOUN_CURR, NOUN_RCST, NOUN_CSET, NOUN_PCUR, NOUN_VOLT}
Units == {UNIT_A, UNIT_A_PER_MIN, UNIT_V}

\* 'STAT:' + noun + ':' + str(v) + unit
Encode(noun, v, unit) == STAT_ \o noun \o <<":">> \o FloatStr(v) \o unit

\* what follows the prefix in a reply that carries no number
BadRemainders ==
    { <<>>, <<"N", "/", "A">>, <<"I", "N", "V", "A", "L", "I", "D">>,
      <<"1", ".", "2", ".", "3">>, <<"1", ".", "5", ":">>, <<"-">>, <<".">> }

\* replies to a numeric READ of noun: well formed, with a trailing newline, in the
\* mock's ':' + unit form, without a number, for another noun, empty
NumericBufs(noun, unit) ==
    {Encode(noun, v, unit) : v \in Readings}
    \cup {Encode(noun, v, unit) \o <<"\n">> : v \in {PyFloat(95, 2)}}
    \cup {STAT_ \o noun \o <<":">> \o r \o unit : r \in BadRemainders}
    \cup {Encode(NOUN_VOLT, PyFloat(1, 0), UNIT_V), Encode(NOUN_CURR, PyFloat(1, 0), UNIT_A),
          <<>>, <<"1", ".", "0", "A">>}

FieldBufs(noun) ==
    {STAT_ \o noun \o <<":">> \o f :
        f \in {<<"O", "N">>, <<"O", "F", "F">>, <<" ", "O", "N">>, <<>>,
               <<"I", "N", "V", "A", "L", "I", "D">>,
               MagnetStatus.HOLD, MagnetStatus.RAMPING_TO_SET, MagnetStatus.RAMPING_TO_ZERO,
               MagnetStatus.CLAMPED, MagnetStatus.UNKNOWN, <<" ", "H", "O", "L", "D">>,
               <<"h", "o", "l", "d">>}}
    \cup {<<>>, <<"O", "N">>, MagnetStatus.HOLD, <<"S", "T", "A", "T">>,
          <<"H", "O", "L", "D", ":", "S", "T", "A", "T", ":">>}

\* the transport works, or sending fails, or receiving fails
Wires(bufs) ==
    {Wire(TRUE, TRUE, b) : b \in bufs}
    \cup {Wire(FALSE, TRUE, <<>>), Wire(TRUE, FALSE, <<>>)}

IdnBufs == {MOCK_IDN, IDN_MARK, MOCK_OK, <<>>, <<"I", "L", "M", "2", "0", "0">>}
SetBufs == {MOCK_OK, <<"I", "N", "V", "A", "L", "I", "D">>, <<>>, <<"\n">>}

\* values an operator may ask for
Setpoints ==
    {PyFloat(0, 0), PyFloat(15, 1), PyFloat(360, 0), PyFloat(-360, 0), PyFloat(3605, 1),
     PyFloat(-361, 0)}
RampRates ==
    {PyFloat(0, 0), PyFloat(25, 1), PyFloat(1200, 0), PyFloat(-1, 0), PyFloat(-1, 1),
     PyFloat(12005, 1)}

\* the mock talks to no transport
NoWire == Wire(TRUE, TRUE, <<>>)

----------------------------------------------------------------------------
(* The driver layer as a state machine: one action per public operation.   *)
(* call records the operation in progress, its input and what it returns,  *)
(* until the caller takes the result (Return); hist records the settings   *)
(* and commands accepted so far.                                           *)

Call(fn, input, ret) == [fn |-> fn, in |-> input, ret |-> ret]
Idle == Call("idle", None, None)

NoHist == [cset |-> None, rate |-> None, heater |-> <<"O", "F", "F">>, action |-> "HOLD"]

\* no MercuryiPSGUI window exists at the driver layer
NoWindow == [open |-> FALSE]

Init ==
    /\ drv = NewDriver("real")
    /\ call = Idle
    /\ hist = NoHist
    /\ gui = NoWindow

InitMock ==
    /\ drv = NewDriver("mock")
    /\ call = Idle
    /\ hist = NoHist
    /\ gui = NoWindow

ILM200_Execute ==
    \E wire \in ILMWires, message \in ILMCommands :
        /\ call.fn = "idle"
        /\ call' = Call("ILM200._execute", wire, ILM200_execute(message, wire))
        /\ UNCHANGED <<drv, hist, gui>>

\* OxfordInstruments_ILM200.close: the local-mode command meets wire, the release of
\* the handle succeeds or fails
ILM200_Close ==
    \E wire \in {w \in ILMWires : Len(w.buf) <= 1}, release \in BOOLEAN :
        /\ call.fn = "idle"
        /\ call' = Call("ILM200.close", [wire |-> wire, release |-> release],
                        ILM200_close(wire, release))
        /\ UNCHANGED <<drv, hist, gui>>

\* set_to_slow of both ILM classes: the commands it sends, each through an _execute
\* that never raises
ILM_set_to_slow == << <<"C", "1">>, <<"S", "1">>, <<"C", "3">> >>

\* set_to_fast of both ILM classes
ILM_set_to_fast == << <<"C", "1">>, <<"T", "1">>, <<"C", "3">> >>

\* OxfordInstruments_ILM200._do_set_rate and OI_ILM_210.set_rate: C1, the rate
\* method, C3 and a status read; C1 and return for any other rate
ILM_set_rate(rate) ==
    IF rate = 0 THEN << <<"C", "1">> >> \o ILM_set_to_slow \o << <<"C", "3">>, <<"X">> >>
    ELSE IF rate = 1
    THEN << <<"C", "1">> >> \o ILM_set_to_fast \o << <<"C", "3">>, <<"X">> >>
    ELSE << <<"C", "1">> >>

\* rate arguments a caller may pass
RateArgs == {0, 1, 2, -1}

ILM_SetToSlow ==
    /\ call.fn = "idle"
    /\ call' = Call("ILM.set_to_slow", None, [sent |-> ILM_set_to_slow, ret |-> None])
    /\ UNCHANGED <<drv, hist, gui>>

ILM_SetToFast ==
    /\ call.fn = "idle"
    /\ call' = Call("ILM.set_to_fast", None, [sent |-> ILM_set_to_fast, ret |-> None])
    /\ UNCHANGED <<drv, hist, gui>>

ILM_SetRate ==
    \E rate \in RateArgs :
        /\ call.fn = "idle"
        /\ call' = Call("ILM.set_rate", rate, [sent |-> ILM_set_rate(rate), ret |-> None])
        /\ UNCHANGED <<drv, hist, gui>>

ILM210_Execute ==
    \E wire \in ILMWires, message \in ILMCommands :
        /\ call.fn = "idle"
        /\ call' = Call("ILM210._execute", wire, ILM210_execute(message, wire))
        /\ UNCHANGED <<drv, hist, gui>>

ILM200_GetLevel ==
    \E wire \in ILMWires :
        /\ call.fn = "idle"
        /\ call' = Call("ILM200._do_get_level", wire, ILM200_do_get_level(wire))
        /\ UNCHANGED <<drv, hist, gui>>

ILM200_GetStatus ==
    \E wire \in ILMWires :
        /\ call.fn = "idle"
        /\ call' = Call("ILM200._do_get_status", wire, ILM200_do_get_status(wire))
        /\ UNCHANGED <<drv, hist, gui>>

ILM200_GetRate ==
    \E wire \in ILMWires :
        /\ call.fn = "idle"
        /\ call' = Call("ILM200._do_get_rate", wire, ILM200_do_get_rate(wire))
        /\ UNCHANGED <<drv, hist, gui>>

ILM210_GetRate ==
    \E wire \in ILMWires :
        /\ call.fn = "idle"
        /\ call' = Call("ILM210.get_rate", wire, ILM210_get_rate(wire))
        /\ UNCHANGED <<drv, hist, gui>>

\* _extract_value on a reply for any noun and unit, decoded with any noun and unit
ExtractValue ==
    \E noun \in Nouns, unit \in Units, rnoun \in Nouns, runit \in Units :
      \E response \in {PyStr(b) : b \in NumericBufs(rnoun, runit)} \cup {None} :
        /\ call.fn = "idle"
        /\ call' = Call("_extract_value",
                        [response |-> response, noun |-> noun, unit |-> unit],
                        extract_value(response, noun, unit))
        /\ UNCHANGED <<drv, hist, gui>>

DrvConnect(wire) ==
    LET r == connect(drv, wire)
    IN  /\ drv' = r.d
        /\ call.fn = "idle"
        /\ call' = Call("connect", wire, r.ret) @@ [sent |-> r.sent]
        /\ UNCHANGED <<hist, gui>>

DrvDisconnect ==
    /\ drv' = disconnect(drv)
    /\ call.fn = "idle"
    /\ call' = Call("disconnect", PyBool(is_connected(drv)), None)
    /\ UNCHANGED <<hist, gui>>

DrvReadCurrent(wire) ==
    /\ call.fn = "idle"
    /\ call' = Call("read_current", wire, read_current(drv, wire))
    /\ UNCHANGED <<drv, hist, gui>>

DrvReadRampRate(wire) ==
    /\ call.fn = "idle"
    /\ call' = Call("read_current_ramp_rate", wire, read_current_ramp_rate(drv, wire))
    /\ UNCHANGED <<drv, hist, gui>>

DrvReadSetpoint(wire) ==
    /\ call.fn = "idle"
    /\ call' = Call("read_current_setpoint", wire, read_current_setpoint(drv, wire))
    /\ UNCHANGED <<drv, hist, gui>>

DrvReadPersistent(wire) ==
    /\ call.fn = "idle"
    /\ call' = Call("read_persistent_current", wire, read_persistent_current(drv, wire))
    /\ UNCHANGED <<drv, hist, gui>>

DrvReadVoltage(wire) ==
    /\ call.fn = "idle"
    /\ call' = Call("read_voltage", wire, read_voltage(drv, wire))
    /\ UNCHANGED <<drv, hist, gui>>

DrvReadHeater(wire) ==
    /\ call.fn = "idle"
    /\ call' = Call("read_switch_heater_status", wire, read_switch_heater_status(drv, wire))
    /\ UNCHANGED <<drv, hist, gui>>

DrvReadMagnet(wire) ==
    /\ call.fn = "idle"
    /\ call' = Call("read_magnet_status", wire, read_magnet_status(drv, wire))
    /\ UNCHANGED <<drv, hist, gui>>

DrvSetCurrent(wire) ==
    \E value \in Setpoints :
        LET r == set_current(drv, value, wire)
        IN  /\ drv' = r.d
            /\ call.fn = "idle"
            /\ call' = Call("set_current", value, r.ret) @@ [sent |-> r.sent]
            /\ hist' = IF r.ret = PyBool(TRUE) THEN [hist EXCEPT !.cset = value] ELSE hist
            /\ UNCHANGED gui

DrvSetRampRate(wire) ==
    \E rate \in RampRates :
        LET r == set_current_ramp_rate(drv, rate, wire)
        IN  /\ drv' = r.d
            /\ call.fn = "idle"
            /\ call' = Call("set_current_ramp_rate", rate, r.ret) @@ [sent |-> r.sent]
            /\ hist' = IF r.ret = PyBool(TRUE) THEN [hist EXCEPT !.rate = rate] ELSE hist
            /\ UNCHANGED gui

\* switch_heater_on, switch_heater_off, hold_field, set_field_zero, ramp_to_setpoint
DrvCommand(fn, r, field, value) ==
    /\ drv' = r.d
    /\ call.fn = "idle"
    /\ call' = Call(fn, None, r.ret) @@ [sent |-> r.sent]
    /\ hist' = IF r.ret = PyBool(TRUE) THEN [hist EXCEPT ![field] = value] ELSE hist
    /\ UNCHANGED gui

DrvHeaterOn(wire) ==
    DrvCommand("switch_heater_on", switch_heater_on(drv, wire), "heater", <<"O", "N">>)
DrvHeaterOff(wire) ==
    DrvCommand("switch_heater_off", switch_heater_off(drv, wire), "heater", <<"O", "F", "F">>)
DrvHoldField(wire) ==
    DrvCommand("hold_field", hold_field(drv, wire), "action", "HOLD")
DrvFieldZero(wire) ==
    DrvCommand("set_field_zero", set_field_zero(drv, wire), "action", "RAMPING_TO_ZERO")
DrvRampToSetpoint(wire) ==
    DrvCommand("ramp_to_setpoint", ramp_to_setpoint(drv, wire), "action", "RAMPING_TO_SET")

\* the caller takes the returned value
Return ==
    /\ call.fn # "idle"
    /\ call' = Idle
    /\ UNCHANGED <<drv, hist, gui>>

Next ==
    \/ Return
    \/ ILM200_Execute \/ ILM210_Execute \/ ILM200_Close
    \/ ILM_SetToSlow \/ ILM_SetToFast \/ ILM_SetRate
    \/ ILM200_GetLevel \/ ILM200_GetStatus \/ ILM200_GetRate \/ ILM210_GetRate
    \/ ExtractValue
    \/ \E wire \in Wires(IdnBufs) : DrvConnect(wire)
    \/ DrvDisconnect
    \/ \E wire \in Wires(NumericBufs(NOUN_CURR, UNIT_A)) : DrvReadCurrent(wire)
    \/ \E wire \in Wires(NumericBufs(NOUN_RCST, UNIT_A_PER_MIN)) : DrvReadRampRate(wire)
    \/ \E wire \in Wires(NumericBufs(NOUN_CSET, UNIT_A)) : DrvReadSetpoint(wire)
    \/ \E wire \in Wires(NumericBufs(NOUN_PCUR, UNIT_A)) : DrvReadPersistent(wire)
    \/ \E wire \in Wires(NumericBufs(NOUN_VOLT, UNIT_V)) : DrvReadVoltage(wire)
    \/ \E wire \in Wires(FieldBufs(NOUN_SWHT)) : DrvReadHeater(wire)
    \/ \E wire \in Wires(FieldBufs(NOUN_ACTN)) : DrvReadMagnet(wire)

Spec == Init /\ [][Next]_vars

\* test_driver.py: the same operations on a MockMercuryiPSDriver
NextMock ==
    \/ Return
    \/ DrvConnect(NoWire) \/ DrvDisconnect
    \/ DrvReadCurrent(NoWire) \/ DrvReadRampRate(NoWire) \/ DrvReadSetpoint(NoWire)
    \/ DrvReadPersistent(NoWire) \/ DrvReadVoltage(NoWire)
    \/ DrvReadHeater(NoWire) \/ DrvReadMagnet(NoWire)
    \/ DrvSetCurrent(NoWire) \/ DrvSetRampRate(NoWire)
    \/ DrvHeaterOn(NoWire) \/ DrvHeaterOff(NoWire)
    \/ DrvHoldField(NoWire) \/ DrvFieldZero(NoWire) \/ DrvRampToSetpoint(NoWire)

SpecMock == InitMock /\ [][NextMock]_vars

\* the commands _query is asked to send
QueryCommands == {IDN_CMD, ReadCmd(NOUN_CURR), CMD_HOLD}

\* MercuryiPSDriver._query
DrvQuery ==
    \E command \in QueryCommands, wire \in Wires({MOCK_OK, <<>>}) :
        LET t == query(drv, command, wire)
        IN  /\ call.fn = "idle"
            /\ drv' = t.d
            /\ call' = Call("_query", [command |-> command, wire |-> wire], t.ret)
            /\ UNCHANGED <<hist, gui>>

\* a driver in IP mode, a driver in VISA mode, a mock driver
InitDriver ==
    /\ drv \in {NewDriver("real"), [NewDriver("real") EXCEPT !.mode = "visa"],
                NewDriver("mock")}
    /\ call = Idle
    /\ hist = NoHist
    /\ gui = NoWindow

\* what the supply answers to a read: a reading, a status, nothing
ReadBufs ==
    {Encode(NOUN_CURR, PyFloat(15, 1), UNIT_A), STAT_ \o NOUN_SWHT \o <<":", "O", "N">>,
     STAT_ \o NOUN_ACTN \o <<":">> \o MagnetStatus.HOLD, <<>>}

\* the driver's transport operations, each one a _query (at most MaxHandles handles
\* are left open)
NextDriver ==
    \/ Return
    \/ DrvDisconnect
    \/ drv.handles < MaxHandles /\ DrvQuery
    \/ \E wire \in Wires(IdnBufs) : drv.handles < MaxHandles /\ DrvConnect(wire)
    \/ \E wire \in Wires(SetBufs) : drv.handles < MaxHandles /\ DrvSetCurrent(wire)
    \/ \E wire \in Wires(SetBufs) : drv.handles < MaxHandles /\ DrvSetRampRate(wire)

SpecDriver == InitDriver /\ [][NextDriver]_vars

\* the transport delivers what the supply answered, or fails
OfflineWires(bufs) == {Wire(TRUE, TRUE, b) : b \in bufs} \cup {Wire(FALSE, TRUE, <<>>)}

\* every operation of a MercuryiPSDriver in IP mode, connected or not
NextOffline ==
    \/ Return
    \/ DrvDisconnect
    \/ \E wire \in OfflineWires({MOCK_IDN}) : DrvConnect(wire)
    \/ \E wire \in OfflineWires(ReadBufs) : DrvReadCurrent(wire)
    \/ \E wire \in OfflineWires(ReadBufs) : DrvReadRampRate(wire)
    \/ \E wire \in OfflineWires(ReadBufs) : DrvReadSetpoint(wire)
    \/ \E wire \in OfflineWires(ReadBufs) : DrvReadPersistent(wire)
    \/ \E wire \in OfflineWires(ReadBufs) : DrvReadVoltage(wire)
    \/ \E wire \in OfflineWires(ReadBufs) : DrvReadHeater(wire)
    \/ \E wire \in OfflineWires(ReadBufs) : DrvReadMagnet(wire)
    \/ \E wire \in OfflineWires({MOCK_OK}) : DrvSetCurrent(wire)
    \/ \E wire \in OfflineWires({MOCK_OK}) : DrvSetRampRate(wire)
    \/ \E wire \in OfflineWires({MOCK_OK}) : DrvHeaterOn(wire)
    \/ \E wire \in OfflineWires({MOCK_OK}) : DrvHeaterOff(wire)
    \/ \E wire \in OfflineWires({MOCK_OK}) : DrvHoldField(wire)
    \/ \E wire \in OfflineWires({MOCK_OK}) : DrvFieldZero(wire)
    \/ \E wire \in OfflineWires({MOCK_OK}) : DrvRampToSetpoint(wire)

SpecOffline == Init /\ [][NextOffline]_vars

----------------------------------------------------------------------------
(* MercuryiPSGUI: the window's handlers run one at a time on the UI thread; *)
(* the lock-out timer runs in its own thread and posts _timer_finished     *)
(* back to the UI thread.                                                  *)

\* range(60, 0, -1) in _timer_loop
TimerSeconds == 60

\* MercuryiPSGUI.__init__
NewWindow(use_mock) ==
    [use_mock |-> use_mock, open |-> TRUE, connected |-> FALSE, stop_update |-> FALSE,
     timer_active |-> FALSE, timer_stop |-> FALSE,
     connect_btn |-> "normal", disconnect_btn |-> "disabled", controls |-> "normal",
     timer_pc |-> "none", remaining |-> 0,
     update_pc |-> "loop", update_posted |-> 0]

InitGui ==
    /\ \E use_mock \in BOOLEAN :
         /\ drv = NewDriver(IF use_mock THEN "mock" ELSE "real")
         /\ gui = NewWindow(use_mock)
    /\ call = Idle
    /\ hist = NoHist

\* what the power supply answers to the GUI's reads
GuiReadings == {PyFloat(1, 0), PyFloat(95, 2), PyFloat(9, 1), PyFloat(85, 2), PyFloat(-1, 0)}

GuiWires(noun) ==
    {Wire(TRUE, TRUE, Encode(noun, v, UNIT_A)) : v \in GuiReadings}
    \cup {Wire(TRUE, TRUE, STAT_ \o noun \o <<":", "N", "/", "A">>),
          Wire(TRUE, TRUE, <<>>), Wire(TRUE, FALSE, <<>>)}

GuiSetWires == {Wire(TRUE, TRUE, MOCK_OK), Wire(TRUE, TRUE, <<>>), Wire(FALSE, TRUE, <<>>)}
GuiIdnWires == {Wire(TRUE, TRUE, MOCK_IDN), Wire(TRUE, TRUE, MOCK_OK), Wire(TRUE, FALSE, <<>>)}

\* the limit of _check_current_safety, 0.1 A
SafetyLimit == PyFloat(1, 1)

\* a bug that takes an unreadable current for 0 A
check_current_safety_NoneAsZero(current, persistent_current, inexact) ==
    LET c == IF current = None THEN PyFloat(0, 0) ELSE current
        p == IF persistent_current = None THEN PyFloat(0, 0) ELSE persistent_current
        current_difference == FloatAbs(FloatSub(c, p))
    IN  ~(FloatGt(current_difference, SafetyLimit)
          \/ (current_difference = SafetyLimit /\ inexact))

\* MercuryiPSGUI._check_current_safety on the two readings.  The decimal difference
\* is exact here; in binary floating point abs(current - persistent_current) of a
\* difference of exactly 0.1 lands on either side of 0.1 (inexact).
check_current_safety(current, persistent_current, inexact) ==
    IF current = None \/ persistent_current = None THEN FALSE
    ELSE LET current_difference == FloatAbs(FloatSub(current, persistent_current))
         IN  ~(FloatGt(current_difference, SafetyLimit)
               \/ (current_difference = SafetyLimit /\ inexact))

\* _update_display calls that may wait in the event queue
MaxPosted == 2

\* MercuryiPSGUI._fade_ui: every widget disabled, or every widget normal
fade_ui(g, fade_out) ==
    LET st == IF fade_out THEN "disabled" ELSE "normal"
    IN  [g EXCEPT !.connect_btn = st, !.disconnect_btn = st, !.controls = st]

\* a bug that starts a timer thread on every call
start_timer_NoActiveCheck(g) ==
    [fade_ui(g, TRUE) EXCEPT !.timer_active = TRUE, !.timer_stop = FALSE,
                             !.timer_pc = "running", !.remaining = TimerSeconds]

\* MercuryiPSGUI._start_timer
start_timer(g) ==
    IF g.timer_active THEN g
    ELSE [fade_ui(g, TRUE) EXCEPT !.timer_active = TRUE, !.timer_stop = FALSE,
                                  !.timer_pc = "running", !.remaining = TimerSeconds]

\* MercuryiPSGUI._disconnect
gui_disconnect(g) ==
    [g EXCEPT !.connected = FALSE, !.connect_btn = "normal", !.disconnect_btn = "disabled"]

\* _heater_on / _heater_off after the driver call: r is what switch_heater_on/off gave
\* (ret None when the handler returned before calling it); True starts the timer
heater_finish(fn, g, current, persistent_current, safe, r) ==
    [d |-> r.d,
     g |-> IF safe /\ r.ret = PyBool(TRUE) THEN start_timer(g) ELSE g,
     call |-> Call(fn,
                   IF g.connected
                   THEN [checked |-> TRUE, current |-> current,
                         persistent_current |-> persistent_current]
                   ELSE [checked |-> FALSE, current |-> None, persistent_current |-> None],
                   [sent |-> safe, ok |-> r.ret,
                    timer_started |-> safe /\ r.ret = PyBool(TRUE) /\ ~g.timer_active])]

\* _heater_on / _heater_off after the checks: the command goes out only if safe
heater_command(fn, d, g, current, persistent_current, safe, w3) ==
    heater_finish(fn, g, current, persistent_current, safe,
                  IF ~safe THEN [d |-> d, ret |-> None]
                  ELSE IF fn = "_heater_on" THEN switch_heater_on(d, w3)
                  ELSE switch_heater_off(d, w3))

\* _heater_on / _heater_off on the two readings: the connection check, then the
\* safety check
heater_check(fn, d, g, current, persistent_current, inexact, w3) ==
    heater_command(fn, d, g, current, persistent_current,
                   g.connected /\ check_current_safety(current, persistent_current, inexact),
                   w3)

\* _heater_on / _heater_off: w1, w2 answer the two reads, w3 the command
heater_handler(fn, d, g, w1, w2, w3, inexact) ==
    heater_check(fn, d, g, read_current(d, w1), read_persistent_current(d, w2), inexact, w3)

\* the handler's effect on the driver, the window and the call record
HeaterStep(h) ==
    /\ drv' = h.d /\ gui' = h.g /\ call' = h.call
    /\ UNCHANGED hist

GuiHeaterOn ==
    \E w1 \in GuiWires(NOUN_CURR), w2 \in GuiWires(NOUN_PCUR), w3 \in GuiSetWires,
       inexact \in BOOLEAN :
        /\ gui.open /\ gui.controls = "normal"
        /\ call.fn = "idle"
        /\ HeaterStep(heater_handler("_heater_on", drv, gui, w1, w2, w3, inexact))

GuiHeaterOff ==
    \E w1 \in GuiWires(NOUN_CURR), w2 \in GuiWires(NOUN_PCUR), w3 \in GuiSetWires,
       inexact \in BOOLEAN :
        /\ gui.open /\ gui.controls = "normal"
        /\ call.fn = "idle"
        /\ HeaterStep(heater_handler("_heater_off", drv, gui, w1, w2, w3, inexact))

\* MercuryiPSGUI._connect: the port must parse, the old driver is disconnected, a new
\* MercuryiPSDriver is constructed (the VISA resource manager may fail to load) and
\* probed; get_device_info only logs
GuiConnect ==
    \E port_ok \in BOOLEAN, ctor_ok \in BOOLEAN, wire \in GuiIdnWires :
        LET r == connect(NewDriver("real"), wire)
            up == port_ok /\ ctor_ok /\ r.ret = PyBool(TRUE)
        IN  /\ gui.open /\ gui.connect_btn = "normal"
            /\ call.fn = "idle"
            /\ drv' = IF ~port_ok THEN drv
                      ELSE IF ~ctor_ok THEN disconnect(drv)
                      ELSE r.d
            /\ gui' = IF up THEN [gui EXCEPT !.connected = TRUE, !.connect_btn = "disabled",
                                             !.disconnect_btn = "normal"]
                      ELSE gui
            /\ call' = Call("_connect", wire, PyBool(up))
            /\ UNCHANGED hist

GuiDisconnect ==
    /\ gui.open /\ gui.disconnect_btn = "normal"
    /\ call.fn = "idle"
    /\ drv' = disconnect(drv)
    /\ gui' = gui_disconnect(gui)
    /\ call' = Call("_disconnect", None, None)
    /\ UNCHANGED hist

\* _timer_loop: one second of the lock-out
TimerTick ==
    /\ gui.timer_pc = "running" /\ gui.remaining > 0 /\ ~gui.timer_stop
    /\ gui' = [gui EXCEPT !.remaining = @ - 1]
    /\ UNCHANGED <<drv, call, hist>>

\* _timer_loop: the loop ends and posts _timer_finished to the UI thread
TimerPost ==
    /\ gui.timer_pc = "running" /\ (gui.remaining = 0 \/ gui.timer_stop)
    /\ gui' = [gui EXCEPT !.timer_pc = "posted"]
    /\ UNCHANGED <<drv, call, hist>>

\* MercuryiPSGUI._timer_finished, on the UI thread of a live window
TimerFinished ==
    /\ gui.open /\ gui.timer_pc = "posted"
    /\ call.fn = "idle"
    /\ gui' = [fade_ui(gui, FALSE) EXCEPT !.timer_active = FALSE, !.timer_pc = "none"]
    /\ UNCHANGED <<drv, call, hist>>

\* a bug that refreshes the display from the update thread itself
update_loop_DirectRead(g) ==
    IF g.stop_update THEN [g EXCEPT !.update_pc = "done"]
    ELSE IF g.connected THEN [g EXCEPT !.update_pc = "driver"]
    ELSE g

\* MercuryiPSGUI._update_loop, one turn: while not stop_update, when connected post
\* _update_display to the UI thread; then time.sleep(1.0)
update_loop(g) ==
    IF g.stop_update THEN [g EXCEPT !.update_pc = "done"]
    ELSE IF g.connected THEN [g EXCEPT !.update_posted = @ + 1]
    ELSE g

UpdateLoop ==
    /\ gui.update_pc = "loop" /\ gui.update_posted < MaxPosted
    /\ gui' = update_loop(gui)
    /\ UNCHANGED <<drv, call, hist>>

\* MercuryiPSGUI._update_display on the UI thread of a live window: nothing when not
\* connected, else the reads through the driver, a None reading skipped
UpdateDisplay ==
    \E wire \in GuiWires(NOUN_CURR) :
        /\ gui.open /\ gui.update_posted > 0
        /\ call.fn = "idle"
        /\ gui' = [gui EXCEPT !.update_posted = @ - 1]
        /\ call' = IF gui.connected
                   THEN Call("_update_display", wire, read_current(drv, wire))
                   ELSE Call("_update_display", None, None)
        /\ UNCHANGED <<drv, hist>>

\* MercuryiPSGUI.on_closing
OnClosing ==
    /\ gui.open
    /\ call.fn = "idle"
    /\ drv' = IF gui.connected THEN disconnect(drv) ELSE drv
    /\ gui' = [(IF gui.connected THEN gui_disconnect(gui) ELSE gui)
                  EXCEPT !.stop_update = TRUE, !.timer_stop = TRUE, !.open = FALSE]
    /\ call' = Call("on_closing", None, None)
    /\ UNCHANGED hist

NextGui ==
    \/ Return
    \/ GuiConnect \/ GuiDisconnect
    \/ GuiHeaterOn \/ GuiHeaterOff
    \/ TimerTick \/ TimerPost \/ TimerFinished
    \/ UpdateLoop \/ UpdateDisplay
    \/ OnClosing

SpecGui == InitGui /\ [][NextGui]_vars

\* The timer thread keeps running (it only sleeps), handlers return, and Tk runs a
\* callback posted with root.after once the handlers queued before it are done.
SpecGuiFair ==
    /\ SpecGui
    /\ WF_vars(Return) /\ WF_vars(TimerTick) /\ WF_vars(TimerPost)
    /\ SF_vars(TimerFinished)

----------------------------------------------------------------------------
(* Keithley 6221 Delta Mode GUI (delta_gui.py).  A Keithley6221 object is a   *)
(* number 1 .. MaxInstruments in the order of construction, 0 is None; what  *)
(* the instrument answers is the environment's choice.                       *)

\* Keithley6221 objects one session constructs
MaxInstruments == 2
\* the largest value entered in samples_input
MaxSamples == 3
\* rows the data frame may hold
MaxRows == 3

\* the object Keithley6221(resource) returns: its transport not yet shut down
NewInstrument == [shut |-> FALSE]

\* DeltaGUI.__init__ with DeltaModeTab.__init__ and DataAcquisitionTab.__init__
NewDeltaWindow ==
    [open |-> TRUE, objs |-> <<>>,
     instrument_instance |-> 0, delta_instrument |-> 0, data_instrument |-> 0,
     connect_btn |-> TRUE,
     timer |-> FALSE, data |-> <<>>, current_sample |-> 0, num_samples_to_acquire |-> 0,
     is_acquiring |-> FALSE, acquire_btn |-> TRUE, stop_acquire_btn |-> FALSE,
     samples_input |-> TRUE, ticks |-> 0, last |-> "__init__"]

InitDelta ==
    /\ drv = NewDriver("real")
    /\ call = Idle
    /\ hist = NoHist
    /\ gui = NewDeltaWindow

\* DeltaGUI.set_instrument_instance
set_instrument_instance(g, instrument) == [g EXCEPT !.instrument_instance = instrument]

\* DeltaGUI.get_instrument_instance
get_instrument_instance(g) == g.instrument_instance

\* test_connection, the try block: open_resource, Keithley6221(resource),
\* check_connection; any failure leaves self.instrument None and the callback
\* not called
test_connection_try(g, open_ok, idn_ok) ==
    IF ~open_ok THEN [g EXCEPT !.delta_instrument = 0]
    ELSE IF ~idn_ok
    THEN [g EXCEPT !.objs = Append(@, NewInstrument), !.delta_instrument = 0]
    ELSE set_instrument_instance(
             [g EXCEPT !.objs = Append(@, NewInstrument), !.delta_instrument = Len(g.objs) + 1],
             Len(g.objs) + 1)

\* test_connection, closing the existing connection: shutdown() on the held
\* instrument, an exception only printed
test_connection_close(g, shutdown_ok) ==
    IF g.delta_instrument = 0 THEN g
    ELSE [g EXCEPT !.objs[g.delta_instrument].shut = @ \/ shutdown_ok,
                   !.delta_instrument = 0]

\* DeltaModeTab.test_connection
test_connection(g, address_ok, shutdown_ok, open_ok, idn_ok) ==
    IF ~address_ok THEN g
    ELSE test_connection_try(test_connection_close(g, shutdown_ok), open_ok, idn_ok)

DeltaTestConnection ==
    \E address_ok \in BOOLEAN, shutdown_ok \in BOOLEAN, open_ok \in BOOLEAN, idn_ok \in BOOLEAN :
        /\ gui.open /\ gui.connect_btn
        /\ (address_ok /\ open_ok) => Len(gui.objs) < MaxInstruments
        /\ gui' = [test_connection(gui, address_ok, shutdown_ok, open_ok, idn_ok)
                      EXCEPT !.last = "test_connection"]
        /\ UNCHANGED <<drv, call, hist>>

\* DataAcquisitionTab.stop_acquisition
stop_acquisition(g) ==
    [g EXCEPT !.timer = FALSE, !.is_acquiring = FALSE, !.acquire_btn = TRUE,
              !.stop_acquire_btn = FALSE, !.samples_input = TRUE]

\* DataAcquisitionTab.acquire_data: delta_mode_active is the flag of the instrument
acquire_data(g, instrument, delta_mode_active, samples) ==
    IF instrument = 0 THEN [g EXCEPT !.data_instrument = instrument]
    ELSE IF ~delta_mode_active THEN [g EXCEPT !.data_instrument = instrument]
    ELSE [g EXCEPT !.data_instrument = instrument,
                   !.num_samples_to_acquire = samples, !.current_sample = 0,
                   !.is_acquiring = TRUE, !.acquire_btn = FALSE, !.stop_acquire_btn = TRUE,
                   !.samples_input = FALSE, !.timer = TRUE, !.ticks = 0]

DeltaAcquire ==
    \E delta_mode_active \in BOOLEAN, samples \in 1..MaxSamples :
        /\ gui.open /\ gui.acquire_btn
        /\ gui' = [acquire_data(gui, get_instrument_instance(gui), delta_mode_active, samples)
                      EXCEPT !.last = "acquire_data"]
        /\ UNCHANGED <<drv, call, hist>>

DeltaStopAcquisition ==
    /\ gui.open /\ gui.stop_acquire_btn
    /\ gui' = [stop_acquisition(gui) EXCEPT !.last = "stop_acquisition"]
    /\ UNCHANGED <<drv, call, hist>>

\* what read_delta_data_point gives: (voltage, resistance), each None or a number,
\* or an exception
DataPoints == {<<"val", "val">>, <<"val", "None">>, <<"None", "None">>, <<"raise">>}

\* the row update_plot appends: a missing value becomes nan
NewRow(p) ==
    [voltage |-> IF p[1] = "None" THEN "nan" ELSE p[1],
     resistance |-> IF p[2] = "None" THEN "nan" ELSE p[2]]

\* a bug that does not count a tick on which no data was read
update_plot_NoDataNoCount(g, p) ==
    IF g.data_instrument = 0 THEN stop_acquisition(g)
    ELSE IF g.current_sample >= g.num_samples_to_acquire THEN stop_acquisition(g)
    ELSE IF p = <<"raise">> THEN stop_acquisition(g)
    ELSE IF p[1] # "None" \/ p[2] # "None"
    THEN [g EXCEPT !.data = Append(@, NewRow(p)), !.current_sample = @ + 1]
    ELSE g

\* DataAcquisitionTab.update_plot on the data point p; the branch of a complete
\* acquisition sets what stop_acquisition sets
update_plot(g, p) ==
    IF g.data_instrument = 0 THEN stop_acquisition(g)
    ELSE IF g.current_sample >= g.num_samples_to_acquire THEN stop_acquisition(g)
    ELSE IF p = <<"raise">> THEN stop_acquisition(g)
    ELSE IF p[1] # "None" \/ p[2] # "None"
    THEN [g EXCEPT !.data = Append(@, NewRow(p)), !.current_sample = @ + 1]
    ELSE [g EXCEPT !.current_sample = @ + 1]

\* the QTimer fires while it is started
DeltaUpdatePlot ==
    \E p \in DataPoints :
        /\ gui.open /\ gui.timer
        /\ (p # <<"raise">> /\ p # <<"None", "None">>) => Len(gui.data) < MaxRows
        /\ gui' = [update_plot(gui, p) EXCEPT !.ticks = @ + 1, !.last = "update_plot"]
        /\ UNCHANGED <<drv, call, hist>>

\* a bug that clears whether or not an acquisition runs
clear_data_NoCheck(g) == [g EXCEPT !.data = <<>>, !.current_sample = 0]

\* DataAcquisitionTab.clear_data
clear_data(g) ==
    IF g.is_acquiring THEN g
    ELSE [g EXCEPT !.data = <<>>, !.current_sample = 0]

DeltaClearData ==
    /\ gui.open
    /\ gui' = [clear_data(gui) EXCEPT !.last = "clear_data"]
    /\ UNCHANGED <<drv, call, hist>>

\* DeltaGUI.closeEvent: with an instrument, the acquisition is stopped and the
\* instrument shut down (an exception of stop_delta_mode or shutdown only printed)
closeEvent(g, shutdown_ok) ==
    IF g.instrument_instance = 0 THEN [g EXCEPT !.open = FALSE]
    ELSE [(IF g.is_acquiring THEN stop_acquisition(g) ELSE g)
             EXCEPT !.objs[g.instrument_instance].shut = @ \/ shutdown_ok,
                    !.open = FALSE]

DeltaCloseEvent ==
    \E shutdown_ok \in BOOLEAN :
        /\ gui.open
        /\ gui' = [closeEvent(gui, shutdown_ok) EXCEPT !.last = "closeEvent"]
        /\ UNCHANGED <<drv, call, hist>>

NextDelta ==
    \/ DeltaTestConnection
    \/ DeltaAcquire
    \/ DeltaStopAcquisition
    \/ DeltaUpdatePlot
    \/ DeltaClearData
    \/ DeltaCloseEvent

SpecDelta == InitDelta /\ [][NextDelta]_vars

\* a started QTimer keeps firing
SpecDeltaFair == SpecDelta /\ WF_vars(DeltaUpdatePlot)

----------------------------------------------------------------------------
(* Claims about the driver layer *)

HasChar(s, c) == \E i \in 1..Len(s) : s[i] = c

\* the transport delivered a reply for this call
Delivered(wire) == wire.w /\ wire.r

\* C2: OxfordInstruments_ILM200._execute returns None for every reply read back from
\* the transport that contains '?', and the reply text unchanged when it contains none.
C2_ExecuteErrorMarker ==
    (call.fn = "ILM200._execute" /\ Delivered(call.in)) =>
        IF HasChar(call.in.buf, "?") THEN call.ret = None
        ELSE call.ret = PyStr(call.in.buf)

C2_Witness ==
    /\ call.fn = "ILM200._execute" /\ Delivered(call.in)
    /\ HasChar(call.in.buf, "?") /\ Len(call.in.buf) = 14
    /\ call.ret = None

\* C3: OI_ILM_210._execute returns None for every reply read back from the transport
\* that contains the error marker '?'.
C3_Execute210ErrorMarker ==
    (call.fn = "ILM210._execute" /\ Delivered(call.in) /\ HasChar(call.in.buf, "?")) =>
        call.ret = None

Decoders ==
    {"ILM200._do_get_level", "ILM200._do_get_status", "ILM200._do_get_rate",
     "_extract_value", "read_switch_heater_status", "read_magnet_status"}

\* C4: decoding never raises: whatever the transport returns, _do_get_level,
\* _do_get_status, _do_get_rate, _extract_value, read_switch_heater_status and
\* read_magnet_status return a decoded value or a sentinel; no exception escapes.
C4_DecodingNeverRaises ==
    call.fn \in Decoders =>
        /\ ~IsRaised(call.ret)
        /\ call.fn = "ILM200._do_get_level" => call.ret.t \in {"float", "None"}
        /\ call.fn \in {"ILM200._do_get_status", "ILM200._do_get_rate"} =>
               call.ret.t = "label"
        /\ call.fn = "_extract_value" => call.ret.t \in {"float", "None"}
        /\ call.fn = "read_switch_heater_status" => call.ret.t \in {"str", "None"}
        /\ call.fn = "read_magnet_status" => call.ret.t = "MagnetStatus"

\* a level reply that is no number, decoded to the sentinel
C4_Witness ==
    /\ call.fn = "ILM200._do_get_level" /\ Delivered(call.in)
    /\ call.in.buf = <<"R", "1", ".", "2", ".", "3">>
    /\ call.ret = None

RateCalls == {"ILM200._do_get_rate", "ILM210.get_rate"}

IsHexPair(s) == Len(s) = 2 /\ s[1] \in HexSet /\ s[2] \in HexSet

\* the value of a hex digit, by table
HexDigitValue(c) ==
    CASE c = "0" -> 0 [] c = "1" -> 1 [] c = "2" -> 2 [] c = "3" -> 3 [] c = "4" -> 4
      [] c = "5" -> 5 [] c = "6" -> 6 [] c = "7" -> 7 [] c = "8" -> 8 [] c = "9" -> 9
      [] c \in {"a", "A"} -> 10 [] c \in {"b", "B"} -> 11 [] c \in {"c", "C"} -> 12
      [] c \in {"d", "D"} -> 13 [] c \in {"e", "E"} -> 14 [] c \in {"f", "F"} -> 15

\* the label of a channel-1 status byte whose low digit is lo
RateLabel(lo) ==
    IF HexDigitValue(lo) \in {2, 3, 6, 7, 10, 11, 14, 15} THEN "FAST"
    ELSE IF HexDigitValue(lo) \in {4, 5, 12, 13} THEN "SLOW"
    ELSE "UNKNOWN"

\* C5: probe-rate decoding returns FAST when bit 0x02 of the hex byte at index 5-6 is
\* set, otherwise SLOW when bit 0x04 is set, otherwise UNKNOWN, for every well-formed
\* status string; for a string shorter than the required length, or with non-hex
\* content at index 5-6, it returns "Unknown".
C5_RateDecoding ==
    (call.fn \in RateCalls /\ Delivered(call.in)) =>
        LET buf == call.in.buf
        IN  IF Len(buf) >= 10 /\ IsHexPair(SubSeq(buf, 6, 7))
            THEN (Len(buf) = 14 /\ ~HasChar(buf, "?")) => call.ret.v = RateLabel(buf[7])
            ELSE call.ret.v = "Unknown"

\* C6: _extract_value round-trips: decoding 'STAT:' + noun + ':' + text(v) + unit with
\* that noun and unit returns v; a response that does not start with
\* 'STAT:' + noun + ':', or whose remainder is not a number, decodes to None.
C6_ExtractValueRoundTrip ==
    call.fn = "_extract_value" =>
        LET noun == call.in.noun
            unit == call.in.unit
            response == call.in.response
            prefix == STAT_ \o noun \o <<":">>
        IN  /\ \A v \in Readings :
                response = PyStr(Encode(noun, v, unit)) => call.ret = v
            /\ (response.t = "str"
                /\ (Len(response.s) < Len(prefix)
                    \/ \E i \in 1..Len(prefix) : response.s[i] # prefix[i])) =>
                    call.ret = None
            /\ \A r \in BadRemainders :
                    response = PyStr(prefix \o r \o unit) => call.ret = None

C6_Witness ==
    /\ call.fn = "_extract_value"
    /\ call.in.noun = NOUN_RCST /\ call.in.unit = UNIT_A_PER_MIN
    /\ call.in.response = PyStr(Encode(NOUN_RCST, PyFloat(-85, 2), UNIT_A_PER_MIN))
    /\ call.ret = PyFloat(-85, 2)

\* the MagnetStatus whose value the reply's final field spells, UNKNOWN when the
\* reply is missing, lacks 'STAT:' or ends in another field
ExpectedMagnetStatus(d, wire) ==
    LET reply == Strip(wire.buf, Whitespace)
        field == Strip(LastField(reply, ":"), Whitespace)
    IN  IF ~(d.connected /\ Delivered(wire) /\ HasChar(reply, ":")
             /\ \E i \in 1..(Len(reply) - 4) : SubSeq(reply, i, i + 4) = STAT_)
        THEN "UNKNOWN"
        ELSE CASE field = <<"H", "O", "L", "D">> -> "HOLD"
               [] field = <<"R", "T", "O", "S">> -> "RAMPING_TO_SET"
               [] field = <<"R", "T", "O", "Z">> -> "RAMPING_TO_ZERO"
               [] field = <<"C", "L", "M", "P">> -> "CLAMPED"
               [] OTHER -> "UNKNOWN"

\* C9: read_magnet_status maps the final ':'-separated field of a response containing
\* 'STAT:' to the matching MagnetStatus (HOLD, RTOS, RTOZ, CLMP) and every other case
\* (no response, no 'STAT:', unrecognised final field) to MagnetStatus.UNKNOWN.
C9_MagnetStatusMapping ==
    call.fn = "read_magnet_status" =>
        call.ret = Member(ExpectedMagnetStatus(drv, call.in))

C9_Witness ==
    /\ call.fn = "read_magnet_status" /\ drv.connected
    /\ call.in = Wire(TRUE, TRUE, STAT_ \o NOUN_ACTN \o <<":", "R", "T", "O", "Z">>)
    /\ call.ret = Member("RAMPING_TO_ZERO")

\* C10: read_switch_heater_status returns only "ON", "OFF" or None, for every response
\* the device can send.
C10_HeaterStatusValues ==
    call.fn = "read_switch_heater_status" =>
        call.ret \in {PyStr(<<"O", "N">>), PyStr(<<"O", "F", "F">>), None}


\* C7: a numeric setting the connected mock accepted is read back unchanged, and the
\* mock's current, persistent current and voltage read back as numbers, not None.
C7_MockReadBack ==
    (drv.kind = "mock" /\ drv.connected) =>
        /\ (call.fn = "read_current_setpoint" /\ hist.cset.t = "float") =>
                call.ret = hist.cset
        /\ (call.fn = "read_current_ramp_rate" /\ hist.rate.t = "float") =>
                call.ret = hist.rate
        /\ call.fn \in {"read_current", "read_persistent_current", "read_voltage"} =>
                call.ret.t = "float"

\* C8: on a connected mock, read_switch_heater_status returns the most recent heater
\* command (initially OFF) and read_magnet_status the most recent action (initially
\* HOLD), after any sequence of commands.
C8_MockStatusReadBack ==
    (drv.kind = "mock" /\ drv.connected) =>
        /\ call.fn = "read_switch_heater_status" => call.ret = PyStr(hist.heater)
        /\ call.fn = "read_magnet_status" => call.ret = Member(hist.action)

C8_Witness ==
    /\ drv.kind = "mock" /\ drv.connected
    /\ call.fn = "read_switch_heater_status"
    /\ hist.heater = <<"O", "F", "F">> /\ hist.action = "RAMPING_TO_SET"
    /\ hist.cset = PyFloat(15, 1)
    /\ call.ret = PyStr(<<"O", "F", "F">>)


\* a reading in thousandths of an ampere
Milli(f) == f.m * Pow10(3 - f.e)

\* C1: a switch-heater command is sent only if, in the same handler invocation,
\* _check_current_safety read the lead current and the persistent current as non-None
\* values no more than 0.1 A apart; if either is None or they are more than 0.1 A
\* apart (1.00 A vs 0.85 A) no command is sent and no lock-out timer started; 0.05 A
\* apart (1.00 A vs 0.95 A) the command is sent.
C1_HeaterSafetyGate ==
    call.fn \in {"_heater_on", "_heater_off"} =>
        LET c == call.in.current
            p == call.in.persistent_current
            readable == c.t = "float" /\ p.t = "float"
        IN  /\ call.ret.sent =>
                /\ call.in.checked /\ readable
                /\ Milli(c) - Milli(p) <= 100 /\ Milli(p) - Milli(c) <= 100
            /\ (~readable \/ Milli(c) - Milli(p) > 100 \/ Milli(p) - Milli(c) > 100) =>
                /\ ~call.ret.sent /\ ~call.ret.timer_started
                /\ call.ret.ok = None
            /\ (c = PyFloat(1, 0) /\ p = PyFloat(85, 2)) => ~call.ret.sent
            /\ (c = PyFloat(1, 0) /\ p = PyFloat(95, 2)) => call.ret.sent
            /\ call.ret.timer_started => (call.ret.sent /\ gui.timer_active)

C1_Witness ==
    /\ call.fn = "_heater_on"
    /\ call.in.current = PyFloat(1, 0) /\ call.in.persistent_current = PyFloat(95, 2)
    /\ call.ret.sent /\ call.ret.timer_started
    /\ gui.timer_active /\ gui.controls = "disabled"

\* C13: every transport handle _query opens is released before it returns, also when
\* the send or the receive fails, so the driver never holds an open handle.
C13_NoOpenHandle == drv.handles = 0

\* C19: connect() returns True exactly when the reply to the *IDN? probe contains
\* 'OXFORD INSTRUMENTS:MERCURY', returns False without raising otherwise, and right
\* after it returns is_connected() equals the value it returned.
C19_ConnectProbe ==
    (call.fn = "connect" /\ drv.kind = "real") =>
        /\ call.ret \in {PyBool(TRUE), PyBool(FALSE)}
        /\ call.ret = PyBool(TRUE) <=>
               (Delivered(call.in) /\ \E i \in 1..Len(call.in.buf) :
                    OccursAt(call.in.buf, IDN_MARK, i))
        /\ is_connected(drv) = (call.ret = PyBool(TRUE))

\* the text of the four boundary settings
BoundaryCommand(fn, v) ==
    IF fn = "set_current"
    THEN CMD_SET_CSET \o (IF v = PyFloat(360, 0) THEN <<"3", "6", "0", ".", "0">>
                          ELSE <<"-", "3", "6", "0", ".", "0">>)
    ELSE CMD_SET_RCST \o (IF v = PyFloat(0, 0) THEN <<"0", ".", "0">>
                          ELSE <<"1", "2", "0", "0", ".", "0">>)

C20_OutOfRange ==
    \/ call'.fn = "set_current" /\ (Milli(call'.in) > 360000 \/ Milli(call'.in) < -360000)
    \/ call'.fn = "set_current_ramp_rate"
           /\ (Milli(call'.in) < 0 \/ Milli(call'.in) > 1200000)

C20_Boundary ==
    \/ call'.fn = "set_current" /\ call'.in \in {PyFloat(360, 0), PyFloat(-360, 0)}
    \/ call'.fn = "set_current_ramp_rate" /\ call'.in \in {PyFloat(0, 0), PyFloat(1200, 0)}

\* C20: set_current(v) with |v| > 360 and set_current_ramp_rate(r) with r < 0 or
\* r > 1200 return False, send no command and change no state, on the mock driver
\* too; the boundary values 360, -360, 0 and 1200 are accepted and sent (stored, on
\* the mock driver).
C20_RangeLimits ==
    [][ /\ C20_OutOfRange =>
            /\ call'.ret = PyBool(FALSE) /\ call'.sent = <<>>
            /\ drv' = drv /\ hist' = hist
        /\ (C20_Boundary /\ drv.kind = "real" /\ drv.connected) =>
            call'.sent = <<BoundaryCommand(call'.fn, call'.in)>>
        /\ (C20_Boundary /\ drv.kind = "mock") =>
            /\ call'.ret = PyBool(TRUE)
            /\ call'.fn = "set_current" => drv'.mock_current_setpoint = call'.in
            /\ call'.fn = "set_current_ramp_rate" => drv'.mock_current_ramp_rate = call'.in
      ]_vars

C20_Witness ==
    /\ call.fn = "set_current" /\ call.in = PyFloat(-361, 0)
    /\ drv.kind = "real" /\ drv.connected
    /\ call.ret = PyBool(FALSE) /\ call.sent = <<>>

\* C12: OxfordInstruments_ILM200.close() first sends the local-mode command C0, then
\* releases the transport, and raises neither when the command fails nor when the
\* release fails.
C12_CloseNeverRaises ==
    call.fn = "ILM200.close" =>
        /\ call.ret.sent = << <<"C", "0">> >>
        /\ ~IsRaised(call.ret.ret)

\* C14: OxfordInstruments_ILM200._execute returns None whenever the write or the read
\* of the response fails, and never raises.
C14_ExecuteTransportFailure ==
    (call.fn = "ILM200._execute" /\ ~Delivered(call.in)) => call.ret = None

----------------------------------------------------------------------------
(* HeliumLevelMonitorApp: the window's handlers run one at a time on the   *)
(* Tk thread (main); every Start creates a measurement thread that runs    *)
(* _measurement_loop.  A command is in flight on the transport from the    *)
(* step that begins it to the step that ends it.  Nothing in the class     *)
(* holds a lock.                                                           *)

\* measurement threads the operator creates in one session
MaxThreads == 2

Threads == 1..MaxThreads

\* HeliumLevelMonitorApp.__init__ and create_widgets: ilm and measurement_thread
\* are 0 for None; a button is TRUE when tk.NORMAL
NewIlmWindow ==
    [ilm |-> 0, running |-> FALSE, measurement_thread |-> 0,
     start_button |-> FALSE, stop_button |-> FALSE, refresh_rate_button |-> TRUE,
     rate_var |-> "N/A", main |-> "idle", quit |-> FALSE,
     threads |-> [t \in Threads |-> "new"], stopped |-> {}]

InitIlmGui ==
    /\ drv = NewDriver("real")
    /\ call = Idle
    /\ hist = NoHist
    /\ gui = NewIlmWindow

\* threading.Thread.is_alive
is_alive(g, t) == g.threads[t] \notin {"new", "dead"}

\* the loops that have not left `while self.running`
ActiveLoops(g) == {t \in Threads : g.threads[t] \in {"started", "reading", "sleep"}}

\* who has a command in flight on the transport: measurement threads, and 0 for
\* the Tk thread
InFlight(g) ==
    {t \in Threads : g.threads[t] \in {"reading", "closing"}}
    \cup (IF g.main \in {"connect", "refresh", "slow", "fast", "close"} THEN {0} ELSE {})

\* what the meter answers to the loop's R1, and the transport failing
LoopWires ==
    {Wire(TRUE, TRUE, <<"R", "1", "2", "3">>), Wire(TRUE, TRUE, <<"?">>),
     Wire(FALSE, TRUE, <<>>), Wire(TRUE, FALSE, <<"R", "1", "2", "3">>)}

\* what the meter answers to the X of refresh_rate
RateWires ==
    {Wire(TRUE, TRUE, StatusString("2", <<"0", "2">>)),
     Wire(TRUE, TRUE, StatusString("2", <<"0", "4">>)), Wire(FALSE, TRUE, <<>>)}

\* enable_controls
enable_controls(g) ==
    [g EXCEPT !.start_button = TRUE, !.stop_button = FALSE, !.refresh_rate_button = TRUE]

\* disable_controls
disable_controls(g) ==
    [g EXCEPT !.start_button = FALSE, !.stop_button = FALSE,
              !.refresh_rate_button = FALSE]

\* refresh_rate on an instrument: rate_var.set(self.ilm._do_get_rate())
refresh_rate(g, wire) == [g EXCEPT !.rate_var = ILM200_do_get_rate(wire).v]

\* the end of stop_measurement: self.ilm = None and the buttons of the stopped state
stop_finish(g) ==
    [g EXCEPT !.ilm = 0, !.rate_var = "N/A", !.start_button = TRUE, !.stop_button = FALSE]

\* close_app after stop_measurement: master.destroy() ends the main loop, and the
\* daemon threads end with the process
destroy(g) ==
    [g EXCEPT !.main = "destroyed", !.threads = [t \in Threads |-> "dead"]]

\* the Tk thread after stop_measurement has returned
stop_return(g) == IF g.quit THEN destroy(g) ELSE [g EXCEPT !.main = "idle"]

\* stop_measurement on the Tk thread from `self.measurement_thread = None` on:
\* self.ilm.close() puts C0 on the transport
stop_after_join(g) ==
    IF g.ilm # 0 THEN [g EXCEPT !.measurement_thread = 0, !.main = "close"]
    ELSE stop_return(stop_finish([g EXCEPT !.measurement_thread = 0]))

\* stop_measurement on the Tk thread up to the join
stop_measurement(g) ==
    IF g.measurement_thread # 0 /\ is_alive(g, g.measurement_thread)
    THEN [g EXCEPT !.running = FALSE, !.main = "join",
                   !.stopped = @ \cup {g.measurement_thread}]
    ELSE stop_after_join([g EXCEPT !.running = FALSE])

\* connect_instrument: close the previous instrument, construct the driver, get_idn
IlmConnectBegin ==
    /\ gui.main = "idle"
    /\ gui' = [gui EXCEPT !.main = "connect"]
    /\ UNCHANGED <<drv, call, hist>>

\* connect_instrument: the IDN names a model, or the except clause
IlmConnectEnd ==
    /\ gui.main = "connect"
    /\ \E ok \in BOOLEAN, wire \in RateWires :
         gui' = IF ok THEN refresh_rate(enable_controls([gui EXCEPT !.ilm = 1, !.main = "idle"]), wire)
                ELSE disable_controls([gui EXCEPT !.ilm = 0, !.main = "idle"])
    /\ UNCHANGED <<drv, call, hist>>

\* start_measurement with a valid period
IlmStart ==
    /\ gui.main = "idle"
    /\ gui.start_button
    /\ \E t \in Threads :
         /\ gui.threads[t] = "new"
         /\ \A u \in Threads : u < t => gui.threads[u] # "new"
         /\ gui' = [gui EXCEPT !.start_button = FALSE, !.stop_button = TRUE,
                               !.measurement_thread = t, !.threads[t] = "started"]
    /\ UNCHANGED <<drv, call, hist>>

\* refresh_rate without an instrument
IlmRefreshNotConnected ==
    /\ gui.main = "idle"
    /\ gui.refresh_rate_button
    /\ gui.ilm = 0
    /\ gui' = [gui EXCEPT !.rate_var = "Not connected"]
    /\ UNCHANGED <<drv, call, hist>>

\* refresh_rate, set_to_slow, set_to_fast with an instrument: the command goes out
IlmRateBegin ==
    /\ gui.main = "idle"
    /\ gui.refresh_rate_button
    /\ gui.ilm # 0
    /\ \E fn \in {"refresh", "slow", "fast"} : gui' = [gui EXCEPT !.main = fn]
    /\ UNCHANGED <<drv, call, hist>>

\* refresh_rate, set_to_slow, set_to_fast: the reply is in
IlmRateEnd ==
    /\ gui.main \in {"refresh", "slow", "fast"}
    /\ \E wire \in RateWires : gui' = refresh_rate([gui EXCEPT !.main = "idle"], wire)
    /\ UNCHANGED <<drv, call, hist>>

\* the Stop Measurement button
IlmStop ==
    /\ gui.main = "idle"
    /\ gui.stop_button
    /\ gui' = stop_measurement(gui)
    /\ UNCHANGED <<drv, call, hist>>

\* close_app: the Close button, or on_closing confirmed
IlmCloseApp ==
    /\ gui.main = "idle"
    /\ gui' = stop_measurement([gui EXCEPT !.quit = TRUE])
    /\ UNCHANGED <<drv, call, hist>>

\* measurement_thread.join(timeout=2) returns: the thread ended, or 2 s passed
IlmJoinEnd ==
    /\ gui.main = "join"
    /\ gui' = stop_after_join(gui)
    /\ UNCHANGED <<drv, call, hist>>

\* self.ilm.close() returns or raises into the except clause
IlmCloseEnd ==
    /\ gui.main = "close"
    /\ gui' = stop_return(stop_finish(gui))
    /\ UNCHANGED <<drv, call, hist>>

\* _measurement_loop: the head of the loop, `while self.running` and the check of
\* self.ilm; the read of the level goes out, or the loop is left
loop_head(g, t) ==
    IF g.running /\ g.ilm # 0 THEN [g EXCEPT !.threads[t] = "reading"]
    ELSE [g EXCEPT !.threads[t] = "finally"]

\* _measurement_loop entered: self.running = True
LoopEnter(t) ==
    /\ gui.threads[t] = "started"
    /\ gui' = loop_head([gui EXCEPT !.running = TRUE], t)
    /\ UNCHANGED <<drv, call, hist>>

\* helium_level = self.ilm.level.get(); device_status = self.ilm.status.get():
\* self.ilm is looked up again for the status
loop_reading(g, wire) ==
    [level |-> ILM200_do_get_level(wire),
     status |-> IF g.ilm = 0 THEN Raised("AttributeError") ELSE ILM200_do_get_status(wire)]

\* the loop after its reads: a None level raises ValueError, and the except clause
\* clears running and leaves the loop; otherwise time.sleep(period)
loop_after_read(g, t, reading) ==
    IF reading.level = None \/ IsRaised(reading.level) \/ IsRaised(reading.status)
    THEN [g EXCEPT !.running = FALSE, !.threads[t] = "finally"]
    ELSE [g EXCEPT !.threads[t] = "sleep"]

LoopRead(t) ==
    /\ gui.threads[t] = "reading"
    /\ \E wire \in LoopWires :
         /\ call' = Call("level.get", [t |-> t, wire |-> wire], loop_reading(gui, wire))
         /\ gui' = loop_after_read(gui, t, loop_reading(gui, wire))
    /\ UNCHANGED <<drv, hist>>

\* time.sleep(period) ends
LoopWake(t) ==
    /\ gui.threads[t] = "sleep"
    /\ gui' = loop_head(gui, t)
    /\ UNCHANGED <<drv, call, hist>>

\* a bug-free stop_measurement on the measurement thread: it does not join itself
loop_finally_NoSelfJoin(g, t) ==
    IF g.ilm # 0
    THEN [g EXCEPT !.running = FALSE, !.measurement_thread = 0, !.threads[t] = "closing"]
    ELSE stop_finish([g EXCEPT !.running = FALSE, !.measurement_thread = 0,
                               !.threads[t] = "dead"])

\* finally: self.stop_measurement() on the measurement thread: joining the current
\* thread raises RuntimeError, which ends the thread before close()
loop_finally(g, t) ==
    IF g.measurement_thread = t
    THEN [g EXCEPT !.running = FALSE, !.threads[t] = "dead"]
    ELSE loop_finally_NoSelfJoin(g, t)

LoopFinally(t) ==
    /\ gui.threads[t] = "finally"
    /\ gui' = loop_finally(gui, t)
    /\ UNCHANGED <<drv, call, hist>>

\* self.ilm.close() on the measurement thread returns
LoopCloseEnd(t) ==
    /\ gui.threads[t] = "closing"
    /\ gui' = stop_finish([gui EXCEPT !.threads[t] = "dead"])
    /\ UNCHANGED <<drv, call, hist>>

NextIlmGui ==
    \/ IlmConnectBegin
    \/ IlmConnectEnd
    \/ IlmStart
    \/ IlmRefreshNotConnected
    \/ IlmRateBegin
    \/ IlmRateEnd
    \/ IlmStop
    \/ IlmCloseApp
    \/ IlmJoinEnd
    \/ IlmCloseEnd
    \/ \E t \in Threads : LoopEnter(t)
    \/ \E t \in Threads : LoopRead(t)
    \/ \E t \in Threads : LoopWake(t)
    \/ \E t \in Threads : LoopFinally(t)
    \/ \E t \in Threads : LoopCloseEnd(t)

SpecIlmGui == InitIlmGui /\ [][NextIlmGui]_vars

\* the threads run and a handler that began ends; the operator may do nothing
SpecIlmGuiFair ==
    /\ SpecIlmGui
    /\ WF_vars(IlmConnectEnd) /\ WF_vars(IlmRateEnd)
    /\ WF_vars(IlmJoinEnd) /\ WF_vars(IlmCloseEnd)
    /\ \A t \in Threads :
         /\ WF_vars(LoopEnter(t)) /\ WF_vars(LoopRead(t)) /\ WF_vars(LoopWake(t))
         /\ WF_vars(LoopFinally(t)) /\ WF_vars(LoopCloseEnd(t))

\* C15: at most one command is in flight on the transport at any time
C15_OneCommandInFlight == Cardinality(InFlight(gui)) <= 1

\* C16: at most one measurement loop is active, and a loop that Stop has stopped
\* never begins another read
C16_StoppedLoopSilent ==
    [][/\ Cardinality(ActiveLoops(gui')) <= 1
       /\ \A t \in gui.stopped :
            gui.threads[t] # "reading" => gui'.threads[t] # "reading"]_vars

\* a level read of the running loop has just failed
LevelReadFailed ==
    /\ call.fn = "level.get"
    /\ call.ret.level = None
    /\ gui.threads[call.in.t] = "finally"

\* C17: after a failed level read the connection is closed and the controls are
\* back in the stopped state, whatever the operator does
C17_FailedReadStops ==
    LevelReadFailed ~> (gui.ilm = 0 /\ gui.start_button /\ ~gui.stop_button)

\* C18: the loop goes on to its sleep after a level read that returned None
C18_NoneReadingKeepsRunning ==
    [][\A t \in Threads :
         (gui.threads[t] = "reading" /\ call'.fn = "level.get" /\ call'.in.t = t
            /\ call'.ret.level = None /\ gui'.main # "destroyed")
         => (gui'.threads[t] = "sleep" /\ gui'.running)]_vars

----------------------------------------------------------------------------
(* ITC503ControlApp: the handlers run one at a time on the Tk thread; Start *)
(* creates a thread that runs _live_read_loop and posts stop_live_read to  *)
(* the Tk thread when a read fails.  SpecItc runs the window next to a     *)
(* MercuryiPSDriver, the way the cryostat bench does.                      *)

\* what the last handler of the window did: its name, self.itc before it ran, the
\* instrument calls it made, and whether an exception left it
ItcRan(fn, g, sent) == [fn |-> fn, itc |-> g.itc, sent |-> sent, raised |-> FALSE]

\* ITC503ControlApp.__init__ and create_widgets: itc is 0 for None
NewItcWindow ==
    [open |-> TRUE, itc |-> 0, running_read |-> FALSE, read_thread |-> 0,
     connect_button |-> TRUE, disconnect_button |-> FALSE,
     start_read_button |-> FALSE, stop_read_button |-> FALSE,
     threads |-> [t \in Threads |-> "new"], posted |-> 0,
     last |-> [fn |-> "__init__", itc |-> 0, sent |-> <<>>, raised |-> FALSE]]

InitItc ==
    /\ drv = NewDriver("real")
    /\ call = Idle
    /\ hist = NoHist
    /\ gui = NewItcWindow

\* update_gui_state_on_connect
update_gui_state_on_connect(g, connected) ==
    IF connected
    THEN [g EXCEPT !.connect_button = FALSE, !.disconnect_button = TRUE,
                   !.start_read_button = TRUE]
    ELSE [g EXCEPT !.connect_button = TRUE, !.disconnect_button = FALSE,
                   !.start_read_button = FALSE, !.stop_read_button = FALSE]

\* stop_live_read: join(timeout=1) returns whether or not the thread has ended
stop_live_read(g) ==
    [g EXCEPT !.running_read = FALSE, !.start_read_button = TRUE,
              !.stop_read_button = FALSE]

\* disconnect_instrument with an instrument: control_mode = "LL" and shutdown()
\* under try / except Exception / finally
disconnect_open(g, ok) ==
    [update_gui_state_on_connect(stop_live_read(g), FALSE) EXCEPT
        !.itc = 0,
        !.last = ItcRan("disconnect_instrument", g,
                        IF ok THEN <<"control_mode", "shutdown">> ELSE <<"control_mode">>)]

\* a bug that says goodbye to an instrument that is not there
disconnect_instrument_AlwaysShutdown(g, ok) == disconnect_open(g, ok)

\* ITC503ControlApp.disconnect_instrument
disconnect_instrument(g, ok) ==
    IF g.itc # 0 THEN disconnect_open(g, ok)
    ELSE [update_gui_state_on_connect(g, FALSE) EXCEPT
            !.last = ItcRan("disconnect_instrument", g, <<>>)]

\* connect_instrument: ITC503(address), .id, control_mode, heater_gas_mode, auto_pid
ItcConnect ==
    /\ gui.open /\ gui.connect_button
    /\ \E ok \in BOOLEAN :
         gui' = IF ok
                THEN [update_gui_state_on_connect(gui, TRUE) EXCEPT
                        !.itc = 1, !.last = ItcRan("connect_instrument", gui, <<"id">>)]
                ELSE [update_gui_state_on_connect(gui, FALSE) EXCEPT
                        !.itc = 0, !.last = ItcRan("connect_instrument", gui, <<"id">>)]
    /\ UNCHANGED <<drv, call, hist>>

\* the Disconnect button
ItcDisconnect ==
    /\ gui.open /\ gui.disconnect_button
    /\ \E ok \in BOOLEAN : gui' = disconnect_instrument(gui, ok)
    /\ UNCHANGED <<drv, call, hist>>

\* on_closing confirmed: disconnect_instrument(), then master.destroy(); the daemon
\* thread ends with the process
ItcOnClosing ==
    /\ gui.open
    /\ \E ok \in BOOLEAN :
         gui' = [disconnect_instrument(gui, ok) EXCEPT
                   !.open = FALSE, !.threads = [t \in Threads |-> "dead"], !.posted = 0]
    /\ UNCHANGED <<drv, call, hist>>

\* start_live_read
ItcStart ==
    /\ gui.open /\ gui.start_read_button
    /\ gui.itc # 0 /\ ~gui.running_read
    /\ \E t \in Threads :
         /\ gui.threads[t] = "new"
         /\ \A u \in Threads : u < t => gui.threads[u] # "new"
         /\ gui' = [gui EXCEPT !.running_read = TRUE, !.start_read_button = FALSE,
                               !.stop_read_button = TRUE, !.read_thread = t,
                               !.threads[t] = "sleep",
                               !.last = ItcRan("start_live_read", gui, <<>>)]
    /\ UNCHANGED <<drv, call, hist>>

\* the Stop button
ItcStop ==
    /\ gui.open /\ gui.stop_read_button
    /\ gui' = [stop_live_read(gui) EXCEPT !.last = ItcRan("stop_live_read", gui, <<>>)]
    /\ UNCHANGED <<drv, call, hist>>

\* master.after(0, self.stop_live_read) runs on the Tk thread
ItcPosted ==
    /\ gui.open /\ gui.posted > 0
    /\ gui' = [stop_live_read(gui) EXCEPT !.posted = @ - 1,
                                          !.last = ItcRan("stop_live_read", gui, <<>>)]
    /\ UNCHANGED <<drv, call, hist>>

\* _live_read_loop: `while self.running_read` at the start and after time.sleep(1)
ItcLoopHead(t) ==
    /\ gui.threads[t] = "sleep"
    /\ gui' = [gui EXCEPT !.threads[t] = IF gui.running_read THEN "reading" ELSE "dead"]
    /\ UNCHANGED <<drv, call, hist>>

\* temp_k = self.itc.temperature_1.get(): a None, a missing instrument or an
\* exception posts stop_live_read and leaves the loop
ItcLoopRead(t) ==
    /\ gui.threads[t] = "reading"
    /\ \E ok \in BOOLEAN :
         gui' = IF ok /\ gui.itc # 0 THEN [gui EXCEPT !.threads[t] = "sleep"]
                ELSE [gui EXCEPT !.threads[t] = "dead", !.posted = @ + 1]
    /\ UNCHANGED <<drv, call, hist>>

NextItc ==
    \/ ItcConnect
    \/ ItcDisconnect
    \/ ItcOnClosing
    \/ ItcStart
    \/ ItcStop
    \/ ItcPosted
    \/ \E t \in Threads : ItcLoopHead(t)
    \/ \E t \in Threads : ItcLoopRead(t)
    \/ \E wire \in Wires(IdnBufs) : DrvConnect(wire)
    \/ DrvDisconnect
    \/ Return

SpecItc == InitItc /\ [][NextItc]_vars

\* C11: disconnect() leaves the driver not connected, also when it already was;
\* disconnect_instrument() without an instrument makes no instrument call, raises
\* nothing and leaves itc None
C11_CloseIdempotent ==
    /\ call.fn = "disconnect" => ~is_connected(drv)
    /\ (gui.last.fn = "disconnect_instrument" /\ gui.last.itc = 0)
         => (gui.last.sent = <<>> /\ ~gui.last.raised /\ gui.itc = 0)

\* disconnect() has run on a driver that was already disconnected, and
\* disconnect_instrument() on a window without an instrument
C11_Witness ==
    /\ call.fn = "disconnect" /\ call.in = PyBool(FALSE) /\ ~is_connected(drv)
    /\ gui.last.fn = "disconnect_instrument" /\ gui.last.itc = 0 /\ gui.itc = 0

\* C27: while the window is open, the Start Measuring button is enabled only while
\* an instrument is connected
C27_StartNeedsInstrument ==
    (gui.main # "destroyed" /\ gui.start_button) => gui.ilm # 0

\* C28: the Start Live Read button is enabled only while an instrument is connected
C28_StartReadNeedsInstrument == (gui.open /\ gui.start_read_button) => gui.itc # 0

\* the noun each read_* operation asks for
ReadNouns ==
    [read_current |-> NOUN_CURR, read_current_ramp_rate |-> NOUN_RCST,
     read_current_setpoint |-> NOUN_CSET, read_persistent_current |-> NOUN_PCUR,
     read_voltage |-> NOUN_VOLT, read_switch_heater_status |-> NOUN_SWHT,
     read_magnet_status |-> NOUN_ACTN]

SetOps ==
    {"set_current", "set_current_ramp_rate", "switch_heater_on", "switch_heater_off",
     "set_field_zero", "hold_field", "ramp_to_setpoint"}

\* what an operation returns while the driver is not connected
OfflineResult(fn) ==
    IF fn = "read_magnet_status" THEN Member("UNKNOWN")
    ELSE IF fn \in DOMAIN ReadNouns THEN None
    ELSE PyBool(FALSE)

\* the operation recorded in c put nothing on the transport
OfflineNoIO(d, c) ==
    IF c.fn \in DOMAIN ReadNouns THEN query(d, ReadCmd(ReadNouns[c.fn]), c.in).opened = 0
    ELSE c.sent = <<>>

\* C22: while a MercuryiPSDriver is not connected, every read_* and every set or
\* action operation does no transport I/O, returns None (UNKNOWN for
\* read_magnet_status, False for a set or action) and leaves the driver as it was
C22_OfflineNoIO ==
    [][(/\ call.fn = "idle"
        /\ call'.fn \in (DOMAIN ReadNouns) \cup SetOps
        /\ drv.kind = "real" /\ ~drv.connected)
       => (/\ drv' = drv
           /\ call'.ret = OfflineResult(call'.fn)
           /\ OfflineNoIO(drv, call'))]_vars

\* read_current has run on a driver that is not connected while the supply would
\* have answered with a reading
C22_Witness ==
    /\ drv.kind = "real" /\ ~drv.connected
    /\ call.fn = "read_current"
    /\ call.in = Wire(TRUE, TRUE, Encode(NOUN_CURR, PyFloat(15, 1), UNIT_A))
    /\ call.ret = None

\* the remote-control commands (C0..C3) among the commands sent
RemoteCommands(sent) == SelectSeq(sent, LAMBDA c : c[1] = "C")

\* the rate command at position i went out while the last remote-control command
\* was C1
RateCommandLocked(sent, i) ==
    LET before == RemoteCommands(SubSeq(sent, 1, i - 1))
    IN  before # <<>> /\ before[Len(before)] = <<"C", "1">>

\* C26: a call that changes the probe rate sends S1 / T1 only after C1, and the last
\* remote-control command it sends is C3
C26_RateUnderRemoteLock ==
    call.fn \in {"ILM.set_to_slow", "ILM.set_to_fast", "ILM.set_rate"} =>
        /\ \A i \in DOMAIN call.ret.sent :
             call.ret.sent[i] \in {<<"S", "1">>, <<"T", "1">>}
                => RateCommandLocked(call.ret.sent, i)
        /\ RemoteCommands(call.ret.sent) # <<>>
        /\ RemoteCommands(call.ret.sent)[Len(RemoteCommands(call.ret.sent))] = <<"C", "3">>

\* C23: the window's connected flag is True only if the driver it holds reports
\* is_connected()
C23_ConnectedFlagMatchesDriver == gui.connected => is_connected(drv)

\* C25: a window constructed with use_mock=True holds a MockMercuryiPSDriver for as
\* long as it is open
C25_MockStaysMock == (gui.open /\ gui.use_mock) => drv.kind = "mock"

\* the threads that are inside a driver command: the UI thread while a handler
\* runs, the update thread and the timer thread if they call the driver
DriverCallers ==
    (IF call.fn # "idle" THEN {"ui"} ELSE {})
    \cup (IF gui.update_pc = "driver" THEN {"update"} ELSE {})
    \cup (IF gui.timer_pc = "driver" THEN {"timer"} ELSE {})

\* C21: every driver command of the window runs on the UI thread, so at most one
\* is in flight
C21_DriverOnUiThread == DriverCallers \subseteq {"ui"} /\ Cardinality(DriverCallers) <= 1

\* a periodic read of _update_display is running on the UI thread of a connected
\* window while the update thread is alive
C21_Witness ==
    /\ call.fn = "_update_display" /\ call.ret = PyFloat(95, 2)
    /\ gui.connected /\ gui.update_pc = "loop" /\ gui.update_posted > 0

HeaterHandlers == {"_heater_on", "_heater_off"}

\* a heater handler runs in this step
HeaterRuns == call.fn = "idle" /\ call'.fn \in HeaterHandlers

\* a successful heater command leaves the lock-out on, and none is sent during one
LockOutStep ==
    /\ (HeaterRuns /\ call'.ret.ok = PyBool(TRUE))
          => (gui'.timer_active /\ gui'.controls = "disabled" /\ gui'.timer_pc = "running")
    /\ (HeaterRuns /\ gui.timer_active) => ~call'.ret.sent
    /\ (HeaterRuns /\ call'.ret.timer_started)
          => (gui.timer_pc = "none" /\ gui'.remaining = TimerSeconds)
    /\ (gui.timer_pc = "running" /\ gui'.timer_pc = "posted")
          => (gui.remaining = 0 \/ gui.timer_stop)
    /\ (gui.timer_pc = "posted" /\ gui'.timer_pc = "none")
          => (~gui'.timer_active /\ gui'.controls = "normal")

\* during the lock-out the controls are disabled, one timer thread exists and
\* _start_timer changes nothing
LockOutState ==
    gui.timer_active =>
        /\ gui.controls = "disabled"
        /\ gui.timer_pc \in {"running", "posted"}
        /\ start_timer(gui) = gui

\* What holds of the lock-out: a successful heater command starts it, a second
\* _start_timer is a no-op, no heater command goes out during it, and in a window
\* that stays open _timer_finished eventually runs, clearing timer_active and
\* enabling the controls
LockOutHolds ==
    /\ []LockOutState
    /\ [][LockOutStep]_vars
    /\ (gui.timer_active ~> (~gui.open \/ (~gui.timer_active /\ gui.controls = "normal")))

\* _timer_finished has run in a connected window: _fade_ui(False) leaves the Connect
\* button enabled beside the connected flag, and the countdown is used up
LockOutEnded ==
    /\ gui.open /\ gui.connected /\ ~gui.timer_active /\ gui.timer_pc = "none"
    /\ gui.controls = "normal" /\ gui.connect_btn = "normal" /\ gui.remaining = 0

\* C24: every lock-out that a successful heater command starts ends with
\* _timer_finished clearing timer_active, after the 60 ticks or earlier when
\* timer_stop is set
C24_TimerFinishedAlways == gui.timer_active ~> ~gui.timer_active

\* C29: the instrument that acquire_data gets from get_instrument_instance is None
\* or an instrument that has not been shut down, after any test_connection calls
C29_InstanceNotShutDown ==
    (gui.open /\ get_instrument_instance(gui) # 0)
        => ~gui.objs[get_instrument_instance(gui)].shut

\* a tick of update_plot counts one sample and leaves the timer running, or stops
\* the acquisition; clear_data during an acquisition changes nothing
AcquisitionStep ==
    /\ (gui'.last = "update_plot" /\ gui'.ticks = gui.ticks + 1)
          => \/ /\ gui'.current_sample = gui.current_sample + 1
                /\ gui'.timer /\ gui'.is_acquiring
             \/ /\ gui'.current_sample = gui.current_sample
                /\ ~gui'.timer /\ ~gui'.is_acquiring /\ gui'.acquire_btn
    /\ (gui'.last = "clear_data" /\ gui.is_acquiring)
          => (gui'.data = gui.data /\ gui'.current_sample = gui.current_sample)

\* the sample count stays within N, an acquisition has seen as many ticks as it
\* counted samples, and it is over after N + 1 ticks
AcquisitionState ==
    /\ gui.current_sample <= gui.num_samples_to_acquire
    /\ gui.ticks <= gui.num_samples_to_acquire + 1
    /\ gui.timer = gui.is_acquiring
    /\ gui.is_acquiring => (gui.ticks = gui.current_sample /\ ~gui.acquire_btn)
    /\ gui.ticks = gui.num_samples_to_acquire + 1 => ~gui.is_acquiring

\* C30: an acquisition of N samples terminates: each tick counts one sample or stops
\* it, current_sample stays within N, after at most N + 1 ticks the timer is
\* stopped, is_acquiring False and Start Acquisition enabled, and clear_data during
\* an acquisition leaves data and current_sample unchanged
C30_AcquisitionTerminates ==
    /\ []AcquisitionState
    /\ [][AcquisitionStep]_vars
    /\ (gui.is_acquiring ~> (~gui.timer /\ ~gui.is_acquiring /\ gui.acquire_btn))

\* an acquisition of MaxSamples samples, one of them without data, has run to its
\* N + 1st tick, which stopped it
C30_Witness ==
    /\ gui.open /\ gui.last = "update_plot"
    /\ gui.num_samples_to_acquire = MaxSamples /\ gui.current_sample = MaxSamples
    /\ gui.ticks = MaxSamples + 1 /\ Len(gui.data) = MaxSamples - 1
    /\ ~gui.timer /\ ~gui.is_acquiring /\ gui.acquire_btn

====
